---- MODULE Spec2Model ----
(***************************************************************************)
(* A model of package tevm of philhofer/seth: the State database that the  *)
(* EVM reads and writes (gethState), its composite snapshots, the Chain    *)
(* driver (Mine, Seal, AtBlock) and the JSON-RPC transport (Execute).      *)
(*                                                                         *)
(* Source: src/tevm/transport.go.  The versioned key-value store Tree is   *)
(* used by that file but its code is not part of it; it is modelled from   *)
(* the specification's section 4.1 (a map and an undo journal).  The EVM   *)
(* interpreter is a library (go-ethereum core/vm); it is modelled by what  *)
(* it does to the State through the state interface.                       *)
(***************************************************************************)
EXTENDS Integers, Sequences, FiniteSets, TLC

VARIABLES
    c,           \* the live Chain's State (type State, field Chain.State)
    block2snap,  \* Chain.block2snap: a Go map, shared by a chain and its views
    c2,          \* a chain returned by AtBlock and kept by the caller: <<>> or <<view>>
    heap,        \* the backing arrays of the log slices of c and c2
    last,        \* the last operation, its arguments and what it returned
    hist,        \* history: what the chain looked like at marked moments
    mu,          \* Chain.mu: the thread holding the mutex, or NoThread
    pc,          \* per thread: "idle", "body" (in a method) or "gross" (marshalling)
    op,          \* per thread: <<the operation it is running, what its result refers to>>
    filt,        \* Chain.filtcount and Chain.filters: the filter registry
    steps        \* the number of operations the run may still perform

vars == <<c, block2snap, c2, heap, last, hist, mu, pc, op, filt, steps>>

(***************************************************************************)
(* Bounds of the model.                                                    *)
(***************************************************************************)
MaxSteps == 5        \* operations in one run
MaxViewSteps == 6    \* operations in one run of a chain and its view
MaxChainSteps == 4   \* operations in one run of mined transactions
MaxConcSteps == 3    \* operations in one run of concurrent callers

A == <<"A">>
B == <<"B">>
Addr == {A, B}
Words == {0, 1}      \* storage words; 0 is the all-zero hash
LogVals == {"L1", "L2"}

(***************************************************************************)
(* Tree: the versioned key-value store (spec 4.1).  m is the current map   *)
(* (a function on the keys present), j the journal of undo records.  A     *)
(* value read from a tree is <<>> when the key is absent, else <<v>>.      *)
(***************************************************************************)
EmptyMap == [k \in {} |-> <<>>]

TreeNew == [m |-> EmptyMap, j |-> <<>>]

MapGet(m, k) == IF k \in DOMAIN m THEN <<m[k]>> ELSE <<>>

MapPut(m, k, v) == [x \in (DOMAIN m) \cup {k} |-> IF x = k THEN v ELSE m[x]]

MapDel(m, k) == [x \in (DOMAIN m) \ {k} |-> m[x]]

\* restore what an undo record remembers
MapUndo(m, e) == IF e.old = <<>> THEN MapDel(m, e.k) ELSE MapPut(m, e.k, e.old[1])

TreeGet(t, k) == MapGet(t.m, k)

TreeInsert(t, k, v) ==
    [m |-> MapPut(t.m, k, v), j |-> Append(t.j, [k |-> k, old |-> MapGet(t.m, k)])]

\* deleting an absent key is a no-op and pushes no journal entry
TreeDelete(t, k) ==
    IF k \notin DOMAIN t.m THEN t
    ELSE [m |-> MapDel(t.m, k), j |-> Append(t.j, [k |-> k, old |-> MapGet(t.m, k)])]

TreeSnapshot(t) == Len(t.j)

\* rollback fails with a precondition error outside 0..version
TreeCanRollback(t, h) == h >= 0 /\ h <= Len(t.j)

RECURSIVE TreeUndoTo(_, _, _)
TreeUndoTo(m, j, h) ==
    IF Len(j) <= h THEN m
    ELSE TreeUndoTo(MapUndo(m, j[Len(j)]), SubSeq(j, 1, Len(j) - 1), h)

TreeRollback(t, h) == [m |-> TreeUndoTo(t.m, t.j, h), j |-> SubSeq(t.j, 1, h)]

TreeCopyAt(t, h) == [m |-> TreeUndoTo(t.m, t.j, h), j |-> <<>>]

(***************************************************************************)
(* Hashes.  Keccak-256 is modelled as an injective constructor, so that a  *)
(* hash of a hash differs from a single hash of the same input.            *)
(***************************************************************************)
HashBytes(x) == [keccak |-> x]

\* n2h of a block number (below 2^48 in this model): the hash of the 8 bytes
\* of binary.LittleEndian.PutUint64, the word given as its high 16 and low 48 bits
n2h(n) == HashBytes([le64hi |-> 0, le64lo |-> n])

\* n2h of a word given as its high 16 and low 48 bits
n2hw(hi, lo) == HashBytes([le64hi |-> hi, le64lo |-> lo])

\* the all-zero hash
zerohash == [zero |-> 32]

stateKey(addr, slot) == HashBytes(<<addr, slot>>)

\* the encoders: msgp (MarshalMsg / UnmarshalMsg) and encoding/json
encode(v) == [msgp |-> v]
decode(b) == b.msgp
js(v) == [json |-> v]

(***************************************************************************)
(* Account: balance, nonce, suicide flag in 41 bytes.                      *)
(***************************************************************************)
EmptyAccount == [bal |-> 0, nonce |-> 0, sui |-> FALSE]

Abs(x) == IF x < 0 THEN 0 - x ELSE x

\* Account.SetBalance stores big.Int.Bytes(), the magnitude of v
SetBalance(acct, v) == [acct EXCEPT !.bal = Abs(v)]

\* AccountTree.GetAccount: the zero account and false when the key is absent
GetAccount(s, a) ==
    LET v == TreeGet(s.accounts, a)
    IN  IF v = <<>> THEN [acct |-> EmptyAccount, ok |-> FALSE]
        ELSE [acct |-> v[1], ok |-> TRUE]

SetAccount(s, a, acct) == [s EXCEPT !.accounts = TreeInsert(s.accounts, a, acct)]

\* CodeTree.GetCode: the bytes, empty when absent
GetCode(s, a) == TreeGet(s.code, a)

(***************************************************************************)
(* Go slices of logs.  A slice is a window [id, len, cap] on a backing     *)
(* array of the heap; heap[id] holds every slot of the array written so    *)
(* far.  Two slices with the same id share their elements.  id 0 is the    *)
(* nil slice.                                                              *)
(***************************************************************************)
EmptySlice == [id |-> 0, len |-> 0, cap |-> 0]

SliceElems(h, sl) == IF sl.len = 0 THEN <<>> ELSE SubSeq(h[sl.id], 1, sl.len)

\* the Go runtime doubles the capacity of a small slice that is full
GrowCap(cap) == IF cap = 0 THEN 1 ELSE 2 * cap

\* append(s, x): in place when len < cap, else into a new array of grown capacity
SliceAppend(h, sl, x) ==
    IF sl.len < sl.cap
    THEN [heap |-> [h EXCEPT ![sl.id] =
                       IF sl.len < Len(@) THEN [@ EXCEPT ![sl.len + 1] = x]
                       ELSE Append(@, x)],
          sl |-> [sl EXCEPT !.len = sl.len + 1]]
    ELSE [heap |-> Append(h, Append(SliceElems(h, sl), x)),
          sl |-> [id |-> Len(h) + 1, len |-> sl.len + 1, cap |-> GrowCap(sl.cap)]]

\* s[:n]: legal up to the capacity, also beyond the length
SliceTo(sl, n) == [sl EXCEPT !.len = n]

\* s[:n:n]: the same array, capacity cut to n
SliceToCap(sl, n) == [sl EXCEPT !.len = n, !.cap = n]

(***************************************************************************)
(* State and the state interface the EVM uses (type gethState).           *)
(***************************************************************************)
NewBlock(n, parent, gasLimit, difficulty) ==
    [number |-> n, hash |-> n2h(n), parent |-> parent, gasLimit |-> gasLimit,
     difficulty |-> difficulty, gasUsed |-> 0, transactions |-> <<>>]

NewState(pending) ==
    [refund |-> 0, pending |-> pending,
     accounts |-> TreeNew, code |-> TreeNew, storage |-> TreeNew, preimage |-> TreeNew,
     transactions |-> TreeNew, receipts |-> TreeNew, blocks |-> TreeNew,
     logs |-> EmptySlice, snapshots |-> <<>>,
     \* the heap the log slice points into, while an operation runs
     heap |-> <<>>,
     \* history, never read by an operation: the observable state when each
     \* snapshot was pushed; the snapshots above the target of a revert made
     \* since the last push; the snapshots at or above the target of any
     \* earlier revert
     hobs |-> <<>>, habove |-> {}, hdead |-> {}]

\* an operation's outcome: the state it leaves and whether it panicked
Ret(s, panic) == [s |-> s, panic |-> panic]

CreateAccount(s, a) == SetAccount(s, a, EmptyAccount)

AddBalance(s, a, v) ==
    LET acct == GetAccount(s, a).acct
    IN  SetAccount(s, a, SetBalance(acct, acct.bal + v))

GetBalance(s, a) == GetAccount(s, a).acct.bal

GetNonce(s, a) == GetAccount(s, a).acct.nonce

SetNonce(s, a, n) ==
    LET g == GetAccount(s, a)
    IN  IF ~g.ok THEN Ret(s, TRUE)
        ELSE Ret(SetAccount(s, a, [g.acct EXCEPT !.nonce = n]), FALSE)

SetCode(s, a, data) == [s EXCEPT !.code = TreeInsert(s.code, a, data)]

AddRefund(s, v) == [s EXCEPT !.refund = s.refund + v]

SetState(s, a, slot, value) ==
    IF value = 0
    THEN [s EXCEPT !.storage = TreeDelete(s.storage, stateKey(a, slot))]
    ELSE [s EXCEPT !.storage = TreeInsert(s.storage, stateKey(a, slot), value)]

Exist(s, a) == GetAccount(s, a).ok

Suicide(s, a) ==
    LET g == GetAccount(s, a)
    IN  IF ~g.ok \/ g.acct.sui THEN s
        ELSE SetAccount(s, a, [g.acct EXCEPT !.sui = TRUE])

HasSuicided(s, a) == LET g == GetAccount(s, a) IN g.ok /\ g.acct.sui

AddLog(s, l) ==
    LET r == SliceAppend(s.heap, s.logs, l)
    IN  [s EXCEPT !.heap = r.heap, !.logs = r.sl]

\* the logs of s, oldest first
Logs(s) == SliceElems(s.heap, s.logs)

\* what a caller can observe of a State through the state interface and the
\* transaction and receipt queries
Obs(s) ==
    [accounts |-> s.accounts.m, code |-> s.code.m, storage |-> s.storage.m,
     transactions |-> s.transactions.m, receipts |-> s.receipts.m,
     logs |-> Logs(s), refund |-> s.refund]

\* the composite descriptor Snapshot pushes
StateSnap(s) ==
    [refund |-> s.refund,
     accounts |-> TreeSnapshot(s.accounts),
     code |-> TreeSnapshot(s.code),
     state |-> TreeSnapshot(s.storage),
     txs |-> TreeSnapshot(s.transactions),
     rxs |-> TreeSnapshot(s.receipts),
     loglen |-> s.logs.len]

\* Snapshot returns len(s.snapshots)-1 after the push, the old length
Snapshot(s) ==
    [s EXCEPT !.snapshots = Append(s.snapshots, StateSnap(s)),
              !.hobs = Append(s.hobs, Obs(s)),
              !.habove = {}]

SnapshotId(s) == Len(s.snapshots)

\* one rollback of RevertToSnapshot: the tree in field f back to handle h.  A
\* rollback that fails its precondition panics and leaves the rest undone.
RevertTree(r, f, h) ==
    IF r.panic THEN r
    ELSE IF ~TreeCanRollback(r.s[f], h) THEN Ret(r.s, TRUE)
    ELSE Ret([r.s EXCEPT ![f] = TreeRollback(@, h)], FALSE)

\* s.logs = s.logs[:ns.loglen]: a panic beyond the capacity
RevertLogs(r, loglen) ==
    IF r.panic THEN r
    ELSE IF loglen > r.s.logs.cap THEN Ret(r.s, TRUE)
    ELSE Ret([r.s EXCEPT !.logs = SliceTo(@, loglen)], FALSE)

RevertRefund(s, ns) == Ret([s EXCEPT !.refund = ns.refund], FALSE)

\* RevertSteps without the rollback of Storage
RevertStepsNoStorage(s, ns) ==
    RevertLogs(
        RevertTree(
            RevertTree(
                RevertTree(
                    RevertTree(RevertRefund(s, ns), "accounts", ns.accounts),
                    "code", ns.code),
                "transactions", ns.txs),
            "receipts", ns.rxs),
        ns.loglen)

\* the statements of RevertToSnapshot after the bounds check, in order:
\* refund, Accounts, Code, Storage, Transactions, Receipts, logs.
\* "snaps = snaps[:v]" assigns the local variable: s.snapshots keeps its length.
RevertSteps(s, ns) ==
    RevertLogs(
        RevertTree(
            RevertTree(
                RevertTree(
                    RevertTree(
                        RevertTree(RevertRefund(s, ns), "accounts", ns.accounts),
                        "code", ns.code),
                    "storage", ns.state),
                "transactions", ns.txs),
            "receipts", ns.rxs),
        ns.loglen)

\* history: the snapshots a revert to v out of n went below or reached
Marked(r, n, v) ==
    Ret([r.s EXCEPT !.habove = @ \cup {i \in 0..(n - 1) : i > v},
                    !.hdead = @ \cup {i \in 0..(n - 1) : i >= v}],
        r.panic)

RevertToSnapshot(s, v) ==
    IF Len(s.snapshots) <= v \/ v < 0 THEN Ret(s, TRUE)
    ELSE Marked(RevertSteps(s, s.snapshots[v + 1]), Len(s.snapshots), v)

(***************************************************************************)
(* The EVM (go-ethereum core/vm), by what it does to the State.  Contract  *)
(* code is a program: a sequence of state-interface calls, with inner call *)
(* frames.  A frame takes a snapshot when it starts and reverts to it when *)
(* it fails.                                                               *)
(***************************************************************************)
\* the programs contract code runs in this model
Progs ==
    { <<[op |-> "SetState", w |-> 1], [op |-> "AddLog", l |-> "L1"]>>,
      <<[op |-> "AddRefund", v |-> 1],
        [op |-> "Frame", fails |-> TRUE,
         prog |-> <<[op |-> "AddLog", l |-> "L1"], [op |-> "SetState", w |-> 1]>>],
        [op |-> "AddLog", l |-> "L2"]>> }

\* what the interpreter returns: the state, an error, a panic
Out(s, err, panic) == [s |-> s, err |-> err, panic |-> panic]

RECURSIVE RunProg(_, _, _)
RECURSIVE RunOp(_, _, _)

\* the end of an inner frame opened at snapshot id
EndFrame(in, id, fails) ==
    IF in.panic \/ ~fails THEN in ELSE RevertToSnapshot(in.s, id)

RunOp(s, self, o) ==
    CASE o.op = "AddLog" -> Ret(AddLog(s, o.l), FALSE)
      [] o.op = "SetState" -> Ret(SetState(s, self, "s1", o.w), FALSE)
      [] o.op = "AddRefund" -> Ret(AddRefund(s, o.v), FALSE)
      [] o.op = "Frame" -> EndFrame(RunProg(Snapshot(s), self, o.prog), SnapshotId(s), o.fails)

RunRest(r, self, rest) == IF r.panic THEN r ELSE RunProg(r.s, self, rest)

RunProg(s, self, prog) ==
    IF prog = <<>> THEN Ret(s, FALSE)
    ELSE RunRest(RunOp(s, self, Head(prog)), self, Tail(prog))

\* vm.Context.CanTransfer
cantransfer(s, a, v) == GetBalance(s, a) >= v

\* dotransfer without the debit of the sender
dotransferCreditOnly(s, from, to, v) ==
    IF v = 0 THEN s
    ELSE SetAccount(s, to, SetBalance(GetAccount(s, to).acct, GetAccount(s, to).acct.bal + v))

\* vm.Context.Transfer: both accounts are read before either is written
dotransfer(s, from, to, v) ==
    IF v = 0 THEN s
    ELSE LET facct == GetAccount(s, from).acct
             fbcct == GetAccount(s, to).acct
         IN  SetAccount(SetAccount(s, from, SetBalance(facct, facct.bal - v)),
                        to, SetBalance(fbcct, fbcct.bal + v))

HasCode(s, a) == GetCode(s, a) # <<>>

\* the outcome once a frame was reverted to its snapshot
Done(b, err) == Out(b.s, err, b.panic)

\* the end of the outermost frame of a call
EndCall(r, id, fails) ==
    IF r.panic THEN Out(r.s, TRUE, TRUE)
    ELSE IF fails THEN Done(RevertToSnapshot(r.s, id), TRUE)
    ELSE Out(r.s, FALSE, FALSE)

CallRun(s, id, addr, prog, fails) ==
    IF HasCode(s, addr) THEN EndCall(RunProg(s, addr, prog), id, fails)
    ELSE Out(s, FALSE, FALSE)

\* s is the State after the frame's snapshot id
CallFrame(s, id, caller, addr, value, prog, fails) ==
    IF ~Exist(s, addr) /\ value = 0 THEN Out(s, FALSE, FALSE)
    ELSE CallRun(dotransfer(IF Exist(s, addr) THEN s ELSE CreateAccount(s, addr),
                            caller, addr, value),
                 id, addr, prog, fails)

\* EvmCall that charges its run to the pending block
EvmCallCharged(s, caller, addr, value, prog, fails) ==
    IF ~cantransfer(s, caller, value) THEN Out(s, TRUE, FALSE)
    ELSE [CallFrame(Snapshot(s), SnapshotId(s), caller, addr, value, prog, fails)
            EXCEPT !.s.pending.gasUsed = @ + 1]

\* EVM.Call: balance check, snapshot, create the callee if it is missing (a
\* call without value to a missing account returns at once), transfer, run the
\* callee's code, revert to the snapshot on failure
EvmCall(s, caller, addr, value, prog, fails) ==
    IF ~cantransfer(s, caller, value) THEN Out(s, TRUE, FALSE)
    ELSE CallFrame(Snapshot(s), SnapshotId(s), caller, addr, value, prog, fails)

\* EVM.StaticCall: snapshot and run read-only; code that writes fails, and the
\* frame reverts to its snapshot
EvmStaticCall(s, caller, addr, prog, fails) ==
    IF HasCode(s, addr) /\ (fails \/ prog # <<>>)
    THEN Done(RevertToSnapshot(Snapshot(s), SnapshotId(s)), TRUE)
    ELSE Out(Snapshot(s), FALSE, FALSE)

\* crypto.CreateAddress(caller, nonce)
CreateAddress(caller, nonce) == <<"contract", caller, nonce>>

OutCreate(s, err, panic, addr) == [s |-> s, err |-> err, panic |-> panic, addr |-> addr]

\* the end of the creation frame: the code is stored on success
EndCreate(r, id, addr, fails) ==
    IF r.panic THEN OutCreate(r.s, TRUE, TRUE, <<>>)
    ELSE IF fails THEN Done(RevertToSnapshot(r.s, id), TRUE) @@ [addr |-> <<>>]
    ELSE OutCreate(SetCode(r.s, addr, "code1"), FALSE, FALSE, <<addr>>)

\* the contract account: created, nonce 1, endowed
CreateInit(s, caller, addr, value) ==
    dotransfer(SetNonce(CreateAccount(s, addr), addr, 1).s, caller, addr, value)

\* n1 is the outcome of the bump of the caller's nonce
CreateFrame(n1, caller, addr, value, prog, fails) ==
    IF n1.panic THEN OutCreate(n1.s, TRUE, TRUE, <<>>)
    ELSE EndCreate(RunProg(CreateInit(Snapshot(n1.s), caller, addr, value), addr, prog),
                   SnapshotId(n1.s), addr, fails)

\* EVM.Create: balance check, bump the caller's nonce, snapshot, create the
\* contract account with nonce 1, transfer, run the init code, store the code;
\* revert to the snapshot on failure
EvmCreate(s, caller, value, prog, fails) ==
    IF ~cantransfer(s, caller, value) THEN OutCreate(s, TRUE, FALSE, <<>>)
    ELSE CreateFrame(SetNonce(s, caller, GetNonce(s, caller) + 1), caller,
                     CreateAddress(caller, GetNonce(s, caller)), value, prog, fails)

(***************************************************************************)
(* The Chain.  c is the live chain's State; a chain that AtBlock built is  *)
(* kept in c2.  Both read and write block2snap (AtBlock copies the map     *)
(* reference) and the heap.                                                *)
(***************************************************************************)
defaultBlock == 100
defaultGasLimit == 6000000
defaultDifficulty == 100

NoThread == "none"
Threads == {"t1", "t2"}

\* s as an operation sees it: the log slice points into the heap
Load(s) == [s EXCEPT !.heap = heap]

HasView == c2 # <<>>

\* the arrays still referenced once an operation is over: heap[1] is the live
\* chain's, heap[2] the view's when it has one of its own
SharedWith(cn, vn) == vn # <<>> /\ vn[1].logs.id # 0 /\ vn[1].logs.id = cn.logs.id

LiveArr(cn, hn) == IF cn.logs.id = 0 THEN <<>> ELSE hn[cn.logs.id]

ViewArr(cn, vn, hn) ==
    IF vn = <<>> \/ vn[1].logs.id = 0 \/ SharedWith(cn, vn) THEN <<>>
    ELSE hn[vn[1].logs.id]

\* the state after an operation: the live State cn, the view vn (<<>> or
\* <<State>>), the heap hn and the record of the operation
Commit(cn, vn, hn, lst) ==
    /\ steps > 0
    /\ c' = [cn EXCEPT !.heap = <<>>, !.logs.id = IF @ = 0 THEN 0 ELSE 1]
    /\ c2' = IF vn = <<>> THEN <<>>
             ELSE <<[vn[1] EXCEPT !.heap = <<>>,
                                  !.logs.id = IF @ = 0 THEN 0
                                              ELSE IF SharedWith(cn, vn) THEN 1 ELSE 2]>>
    /\ heap' = <<LiveArr(cn, hn), ViewArr(cn, vn, hn)>>
    /\ last' = lst
    /\ steps' = steps - 1

\* an operation on the live chain that leaves s2
CommitLive(s2, lst) == Commit(s2, c2, s2.heap, lst)

\* an operation on the view that leaves s2
CommitView(s2, lst) == Commit(c, <<s2>>, s2.heap, lst)

\* the record of an operation: the chain it ran on ("c" or "c2"), its name,
\* arguments and results, and whether it panicked
DidOn(on, name, arg, ret, panic) ==
    [on |-> on, op |-> name, arg |-> arg, ret |-> ret, panic |-> panic]

Did(name, arg, ret, panic) == DidOn("c", name, arg, ret, panic)

NewChain ==
    NewState(NewBlock(defaultBlock, zerohash, defaultGasLimit, defaultDifficulty))

\* a new chain, no caller inside it, and n operations to come
InitWith(n) ==
    /\ c = NewChain
    /\ block2snap = EmptyMap
    /\ c2 = <<>>
    /\ heap = <<<<>>, <<>>>>
    /\ last = Did("NewChain", <<>>, <<>>, FALSE)
    /\ hist = [sealed |-> EmptyMap, mined |-> EmptyMap, delivered |-> EmptyMap]
    /\ mu = NoThread
    /\ pc = [t \in Threads |-> "idle"]
    /\ op = [t \in Threads |-> <<"none", 0, <<>>>>]
    /\ filt = [filtcount |-> 0, filters |-> EmptyMap]
    /\ steps = n

Init == InitWith(MaxSteps)

(***************************************************************************)
(* Chain operations, as functions of the State they run on.                *)
(***************************************************************************)
WeiPerEther == 2     \* stands for 10^18

\* Mine's transaction hash: HashBytes of n2h of the 64-bit word N | (i << 48),
\* for a block number N below 2^48
TxHash(n, i) == HashBytes(n2hw(i % 65536, n))

\* lconv: the logs as the receipt carries them
lconv(ls) == [i \in 1..Len(ls) |-> [log |-> ls[i]]]

OutMine(s, err, panic, h) == [s |-> s, err |-> err, panic |-> panic, h |-> h]

\* the EVM run Mine starts.  tx is [from, to, gas, value]; to is <<>> for a
\* creation.  prog and fails say what the code does.
MineEvm(s, tx, prog, fails) ==
    IF tx.to = <<>> THEN EvmCreate(s, tx.from, tx.value, prog, fails)
    ELSE EvmCall(s, tx.from, tx.to[1], tx.value, prog, fails) @@ [addr |-> <<>>]

\* MineBookkeeping without the addition to the block's gas-used
MineBookkeepingNoGas(s, tx, addr, l0, left) ==
    LET used == tx.gas - left
        b == s.pending
        idx == Len(b.transactions)
        h == TxHash(b.number, idx)
        tx2 == [from |-> tx.from, to |-> tx.to, gas |-> tx.gas, value |-> tx.value,
                txIndex |-> idx, block |-> b.hash, blockNumber |-> b.number,
                hash |-> h]
        rx == [hash |-> h, index |-> idx, gasUsed |-> used,
               cumulative |-> b.gasUsed,
               logs |-> lconv(SubSeq(Logs(s), l0 + 1, s.logs.len)),
               address |-> addr]
        b2 == [b EXCEPT !.transactions = Append(@, js(h))]
    IN  OutMine([s EXCEPT !.pending = b2,
                          !.transactions = TreeInsert(@, h, encode(tx2)),
                          !.receipts = TreeInsert(@, h, encode(rx))],
                FALSE, FALSE, <<h>>)

\* what Mine does once the EVM has returned without error: s is the State the
\* EVM left, addr the created contract, l0 the number of logs before the run,
\* left the gas the EVM handed back
MineBookkeeping(s, tx, addr, l0, left) ==
    LET used == tx.gas - left
        b == s.pending
        idx == Len(b.transactions)
        h == TxHash(b.number, idx)
        tx2 == [from |-> tx.from, to |-> tx.to, gas |-> tx.gas, value |-> tx.value,
                txIndex |-> idx, block |-> b.hash, blockNumber |-> b.number,
                hash |-> h]
        rx == [hash |-> h, index |-> idx, gasUsed |-> used,
               cumulative |-> b.gasUsed + used,
               logs |-> lconv(SubSeq(Logs(s), l0 + 1, s.logs.len)),
               address |-> addr]
        b2 == [b EXCEPT !.gasUsed = @ + used,
                        !.transactions = Append(@, js(h))]
    IN  OutMine([s EXCEPT !.pending = b2,
                          !.transactions = TreeInsert(@, h, encode(tx2)),
                          !.receipts = TreeInsert(@, h, encode(rx))],
                FALSE, FALSE, <<h>>)

\* MineAfter without the return on the EVM's error
MineAfterIgnoringError(r, tx, l0, left) ==
    IF r.panic THEN OutMine(r.s, TRUE, TRUE, <<>>)
    ELSE IF r.s.logs.len < l0 THEN OutMine(r.s, TRUE, TRUE, <<>>)
    ELSE MineBookkeeping(r.s, tx, r.addr, l0, left)

\* Mine once the EVM has returned r: the error is returned as it is; the
\* slice c.State.logs[l0:] panics when the logs are shorter than l0
MineAfter(r, tx, l0, left) ==
    IF r.panic THEN OutMine(r.s, TRUE, TRUE, <<>>)
    ELSE IF r.err THEN OutMine(r.s, TRUE, FALSE, <<>>)
    ELSE IF r.s.logs.len < l0 THEN OutMine(r.s, TRUE, TRUE, <<>>)
    ELSE MineBookkeeping(r.s, tx, r.addr, l0, left)

\* Chain.Mine
Mine(s, tx, prog, fails, left) ==
    MineAfter(MineEvm(s, tx, prog, fails), tx, s.logs.len, left)

\* Seal with the new pending block keeping the sealed block's difficulty
SealKeepDifficulty(s, b2s) ==
    LET b == s.pending
        s1 == Snapshot(s)
    IN  [b2s |-> MapPut(b2s, b.number, SnapshotId(s)),
         s |-> [s1 EXCEPT !.blocks = TreeInsert(@, b.hash, encode(b)),
                          !.pending = NewBlock(b.number + 1, b.hash, b.gasLimit,
                                               b.difficulty)]]

\* Seal recording the handle before the one it takes
SealEarlierHandle(s, b2s) ==
    LET b == s.pending
        s1 == Snapshot(s)
    IN  [b2s |-> MapPut(b2s, b.number, IF SnapshotId(s) = 0 THEN 0 ELSE SnapshotId(s) - 1),
         s |-> [s1 EXCEPT !.blocks = TreeInsert(@, b.hash, encode(b)),
                          !.pending = NewBlock(b.number + 1, b.hash, b.gasLimit, 0)]]

\* Chain.Seal: the State and the block2snap it leaves
Seal(s, b2s) ==
    LET b == s.pending
        s1 == Snapshot(s)
    IN  [b2s |-> MapPut(b2s, b.number, SnapshotId(s)),
         s |-> [s1 EXCEPT !.blocks = TreeInsert(@, b.hash, encode(b)),
                          !.pending = NewBlock(b.number + 1, b.hash, b.gasLimit, 0)]]

\* State.atSnap(n, dst) for n >= 0 into a zero State; it panics on a snapshot
\* index out of range, on a handle newer than its tree and on a log length
\* beyond the capacity
atSnapOk(s, n) ==
    /\ n < Len(s.snapshots)
    /\ LET ns == s.snapshots[n + 1]
       IN  /\ TreeCanRollback(s.accounts, ns.accounts)
           /\ TreeCanRollback(s.code, ns.code)
           /\ TreeCanRollback(s.storage, ns.state)
           /\ TreeCanRollback(s.transactions, ns.txs)
           /\ TreeCanRollback(s.receipts, ns.rxs)
           /\ ns.loglen <= s.logs.cap

\* atSnap with the accounts copied as they are now
atSnapCurrentAccounts(s, n, pending) ==
    LET ns == s.snapshots[n + 1]
    IN  [NewState(pending) EXCEPT
            !.refund = s.refund,
            !.accounts = TreeCopyAt(s.accounts, TreeSnapshot(s.accounts)),
            !.code = TreeCopyAt(s.code, ns.code),
            !.storage = TreeCopyAt(s.storage, ns.state),
            !.transactions = TreeCopyAt(s.transactions, ns.txs),
            !.receipts = TreeCopyAt(s.receipts, ns.rxs),
            !.logs = SliceToCap(s.logs, ns.loglen),
            !.snapshots = SubSeq(s.snapshots, 1, n),
            !.heap = s.heap,
            !.hobs = SubSeq(s.hobs, 1, n),
            !.habove = {i \in s.habove : i < n},
            !.hdead = {i \in s.hdead : i < n}]

atSnap(s, n, pending) ==
    LET ns == s.snapshots[n + 1]
    IN  [NewState(pending) EXCEPT
            !.refund = s.refund,
            !.accounts = TreeCopyAt(s.accounts, ns.accounts),
            !.code = TreeCopyAt(s.code, ns.code),
            !.storage = TreeCopyAt(s.storage, ns.state),
            !.transactions = TreeCopyAt(s.transactions, ns.txs),
            !.receipts = TreeCopyAt(s.receipts, ns.rxs),
            !.logs = SliceToCap(s.logs, ns.loglen),
            !.snapshots = SubSeq(s.snapshots, 1, n),
            !.heap = s.heap,
            !.hobs = SubSeq(s.hobs, 1, n),
            !.habove = {i \in s.habove : i < n},
            !.hdead = {i \in s.hdead : i < n}]

\* Chain.AtBlock(n): the receiver ("self"), nil, a new chain ("view"), or a panic
OutAt(kind, s) == [kind |-> kind, s |-> s]

AtBlockBuild(s, n, snap) ==
    LET buf == TreeGet(s.blocks, n2h(n))
    IN  IF buf = <<>> THEN OutAt("nil", <<>>)
        ELSE IF ~atSnapOk(s, snap) THEN OutAt("panic", <<>>)
        ELSE OutAt("view", <<atSnap(s, snap, decode(buf[1]))>>)

\* AtBlock with "latest" answered by the receiver
AtBlockLatestIsPending(s, b2s, n) ==
    LET pending == s.pending.number
    IN  IF n = pending - 1 /\ (pending - 1) \in DOMAIN b2s
        THEN AtBlockBuild(s, pending - 1, b2s[pending - 1])
        ELSE IF n \in {pending - 1, 0 - 2, pending, 0 - 1} THEN OutAt("self", <<>>)
        ELSE IF n \notin DOMAIN b2s THEN OutAt("nil", <<>>)
        ELSE AtBlockBuild(s, n, b2s[n])

AtBlock(s, b2s, n) ==
    LET pending == s.pending.number
    IN  IF n \in {pending - 1, 0 - 2} /\ (pending - 1) \in DOMAIN b2s
        THEN AtBlockBuild(s, pending - 1, b2s[pending - 1])
        ELSE IF n \in {pending - 1, 0 - 2, pending, 0 - 1} THEN OutAt("self", <<>>)
        ELSE IF n \notin DOMAIN b2s THEN OutAt("nil", <<>>)
        ELSE AtBlockBuild(s, n, b2s[n])

\* Chain.balanceOf
balanceOf(s, a) == GetAccount(s, a).acct.bal

\* Chain.NewAccount(ether) at the address rand.Read drew
NewAccount(s, a, ether) ==
    IF ether = 0 THEN CreateAccount(s, a)
    ELSE SetAccount(s, a, SetBalance(EmptyAccount, ether * WeiPerEther))

\* the handlers of eth_getTransactionByHash and eth_getTransactionReceipt:
\* <<>> is the not-found error
transaction(s, h) ==
    LET b == TreeGet(s.transactions, h) IN IF b = <<>> THEN <<>> ELSE <<decode(b[1])>>

receipt(s, h) ==
    LET b == TreeGet(s.receipts, h) IN IF b = <<>> THEN <<>> ELSE <<decode(b[1])>>

\* Chain.getBlock without the full transactions: the pending block itself (a
\* pointer to it) when the hash is the pending block's, else a decoded copy
getBlock(s, h) ==
    IF h = s.pending.hash THEN [ref |-> TRUE, b |-> <<s.pending>>]
    ELSE LET buf == TreeGet(s.blocks, h)
         IN  IF buf = <<>> THEN [ref |-> FALSE, b |-> <<>>]
             ELSE [ref |-> FALSE, b |-> <<decode(buf[1])>>]

(***************************************************************************)
(* The state interface called on the live chain: c.State.StateDB().        *)
(***************************************************************************)
Rest == UNCHANGED <<block2snap, hist, mu, pc, op, filt>>

DoAddBalance(a, v) ==
    /\ CommitLive(AddBalance(Load(c), a, v), Did("AddBalance", <<a, v>>, <<>>, FALSE))
    /\ Rest

DoSetNonce(a, n) ==
    /\ CommitLive(SetNonce(Load(c), a, n).s,
                  Did("SetNonce", <<a, n>>, <<>>, SetNonce(Load(c), a, n).panic))
    /\ Rest

DoSetCode(a, code) ==
    /\ CommitLive(SetCode(Load(c), a, code), Did("SetCode", <<a, code>>, <<>>, FALSE))
    /\ Rest

DoSetState(a, slot, w) ==
    /\ CommitLive(SetState(Load(c), a, slot, w), Did("SetState", <<a, slot, w>>, <<>>, FALSE))
    /\ Rest

DoAddRefund(v) ==
    /\ CommitLive(AddRefund(Load(c), v), Did("AddRefund", <<v>>, <<>>, FALSE))
    /\ Rest

DoSuicide(a) ==
    /\ CommitLive(Suicide(Load(c), a),
                  Did("Suicide", <<a>>, <<Exist(c, a) /\ ~HasSuicided(c, a)>>, FALSE))
    /\ Rest

DoAddLog(l) ==
    /\ CommitLive(AddLog(Load(c), l), Did("AddLog", <<l>>, <<>>, FALSE))
    /\ Rest

DoSnapshot ==
    /\ CommitLive(Snapshot(Load(c)), Did("Snapshot", <<>>, <<SnapshotId(c)>>, FALSE))
    /\ Rest

\* ret: was v above the target of a revert made since the last push; was v
\* at or above the target of an earlier revert; did the state differ from the
\* one the snapshot saw
\* an operation on the chain "c" or "c2" that leaves s2
CommitOn(on, s2, lst) == IF on = "c" THEN CommitLive(s2, lst) ELSE CommitView(s2, lst)

FinishRevert(on, r, v, ret) ==
    CommitOn(on, r.s, DidOn(on, "RevertToSnapshot", <<v>>, ret, r.panic))

DoRevertToSnapshot(v) ==
    /\ FinishRevert("c", RevertToSnapshot(Load(c), v), v,
                    <<v \in c.habove, v \in c.hdead,
                      v \in 0..(Len(c.snapshots) - 1) /\ Obs(Load(c)) # c.hobs[v + 1]>>)
    /\ Rest

(***************************************************************************)
(* The Chain's methods and the JSON-RPC handlers, on the live chain.       *)
(***************************************************************************)
TxGas == 2

Txs == [from : {A}, to : {<<>>, <<B>>}, gas : {TxGas}, value : {0, 1}]

TxToB == [from |-> A, to |-> <<B>>, gas |-> TxGas, value |-> 1]

Frozen == UNCHANGED <<mu, pc, op, filt>>

\* rand.Read draws an address that holds no account yet
DoNewAccount(a, ether) ==
    /\ ~Exist(c, a)
    /\ CommitLive(NewAccount(Load(c), a, ether), Did("NewAccount", <<a, ether>>, <<a>>, FALSE))
    /\ Rest

\* the live chain is left as the EVM left it, and the error is returned
FinishLive(r, name, arg) == CommitLive(r.s, Did(name, arg, <<r.err>>, r.panic))

\* the answer of an operation that ran on a chain AtBlock built and dropped
Answer(r, name, arg) == Commit(c, c2, heap, Did(name, arg, <<r.err>>, r.panic))

DoSend(from, to, value, prog, fails) ==
    /\ FinishLive(EvmCall(Load(c), from, to, value, prog, fails), "Send", <<from, to, value>>)
    /\ Rest

\* hist remembers the records of every mined transaction as they were
\* retrieved right after Mine
FinishMine(on, r, arg) ==
    /\ CommitOn(on, r.s, DidOn(on, "Mine", arg, <<r.err, r.h>>, r.panic))
    /\ hist' = IF r.err \/ on # "c" THEN hist
               ELSE [hist EXCEPT !.mined =
                         MapPut(@, r.h[1], [tx |-> transaction(r.s, r.h[1]),
                                            rx |-> receipt(r.s, r.h[1])])]

DoMine(tx, prog, fails, left) ==
    /\ FinishMine("c", Mine(Load(c), tx, prog, fails, left), <<tx, prog, fails, left>>)
    /\ UNCHANGED block2snap
    /\ Frozen

\* hist remembers what was observable when each block was sealed
FinishSeal(on, r, n) ==
    /\ CommitOn(on, r.s, DidOn(on, "Seal", <<n>>, <<>>, FALSE))
    /\ block2snap' = r.b2s

DoSeal ==
    /\ FinishSeal("c", Seal(Load(c), block2snap), c.pending.number)
    /\ hist' = [hist EXCEPT !.sealed = MapPut(@, c.pending.number, Obs(Load(c)))]
    /\ Frozen

\* c2 = c.AtBlock(n), kept when it is a new chain
Keep(r, n) ==
    Commit(c, IF r.kind = "view" THEN r.s ELSE c2, heap,
           Did("AtBlock", <<n>>, <<r.kind>>, r.kind = "panic"))

DoAtBlock(n) ==
    /\ Keep(AtBlock(Load(c), block2snap, n), n)
    /\ Rest

\* eth_getBalance: Chain.balance
balance(at, a) ==
    CASE at.kind = "self" -> <<"ok", balanceOf(c, a)>>
      [] at.kind = "view" -> <<"ok", balanceOf(at.s[1], a)>>
      [] OTHER -> <<"error", 0>>

EthGetBalanceAt(at, a, n) ==
    Commit(c, c2, heap, Did("eth_getBalance", <<a, n>>, balance(at, a), at.kind = "panic"))

EthGetBalance(a, n) ==
    /\ EthGetBalanceAt(AtBlock(Load(c), block2snap, n), a, n)
    /\ Rest

\* eth_call: Chain.staticCall.  On a chain that AtBlock built, the call runs on
\* that chain, which is dropped afterwards.
staticCall(at, from, to, n, prog, fails) ==
    CASE at.kind = "self" ->
           FinishLive(EvmStaticCall(Load(c), from, to, prog, fails), "eth_call", <<from, to, n>>)
      [] at.kind = "view" ->
           Answer(EvmStaticCall(at.s[1], from, to, prog, fails), "eth_call", <<from, to, n>>)
      [] OTHER ->
           Commit(c, c2, heap, Did("eth_call", <<from, to, n>>, <<TRUE>>, at.kind = "panic"))

EthCall(from, to, n, prog, fails) ==
    /\ staticCall(AtBlock(Load(c), block2snap, n), from, to, n, prog, fails)
    /\ Rest

\* the end of Chain.estimate: the EVM's error is returned at once, else the
\* State is reverted to the snapshot id
estimateEnd(r, id) ==
    IF r.panic \/ r.err THEN Out(r.s, TRUE, r.panic)
    ELSE Done(RevertToSnapshot(r.s, id), FALSE)

\* Chain.estimate on the State s: snapshot, run, revert to the snapshot unless
\* the EVM returned an error
estimate(s, tx, prog, fails) ==
    estimateEnd(IF tx.to = <<>> THEN EvmCreate(Snapshot(s), tx.from, tx.value, prog, fails)
                ELSE EvmCall(Snapshot(s), tx.from, tx.to[1], tx.value, prog, fails),
                SnapshotId(s))

estimateAt(at, tx, n, prog, fails) ==
    CASE at.kind = "self" ->
           FinishLive(estimate(Load(c), tx, prog, fails), "eth_estimateGas", <<tx, n>>)
      [] at.kind = "view" ->
           Answer(estimate(at.s[1], tx, prog, fails), "eth_estimateGas", <<tx, n>>)
      [] OTHER ->
           Commit(c, c2, heap, Did("eth_estimateGas", <<tx, n>>, <<TRUE>>, at.kind = "panic"))

\* eth_estimateGas
EthEstimateGas(tx, n, prog, fails) ==
    /\ estimateAt(AtBlock(Load(c), block2snap, n), tx, n, prog, fails)
    /\ Rest

(***************************************************************************)
(* Operations on the chain c2 that AtBlock returned.                       *)
(***************************************************************************)
View == Load(c2[1])

ViewAddBalance(a, v) ==
    /\ HasView
    /\ CommitView(AddBalance(View, a, v), DidOn("c2", "AddBalance", <<a, v>>, <<>>, FALSE))
    /\ Rest

ViewAddLog(l) ==
    /\ HasView
    /\ CommitView(AddLog(View, l), DidOn("c2", "AddLog", <<l>>, <<>>, FALSE))
    /\ Rest

ViewSnapshot ==
    /\ HasView
    /\ CommitView(Snapshot(View), DidOn("c2", "Snapshot", <<>>, <<SnapshotId(View)>>, FALSE))
    /\ Rest

ViewRevertToSnapshot(v) ==
    /\ HasView
    /\ FinishRevert("c2", RevertToSnapshot(View, v), v, <<>>)
    /\ Rest

ViewMine(tx, prog, fails, left) ==
    /\ HasView
    /\ FinishMine("c2", Mine(View, tx, prog, fails, left), <<tx, prog, fails, left>>)
    /\ UNCHANGED block2snap
    /\ Frozen

ViewSeal ==
    /\ HasView
    /\ FinishSeal("c2", Seal(View, block2snap), c2[1].pending.number)
    /\ UNCHANGED hist
    /\ Frozen

(***************************************************************************)
(* Concurrent callers.  A caller enters a method (taking the mutex when    *)
(* the method takes it), runs its body, and leaves.  Execute releases the  *)
(* mutex after the handler and marshals the handler's result afterwards.   *)
(***************************************************************************)
\* the methods that call c.mu.Lock()
Locking == {"AddBalance", "BalanceOf", "Send", "Execute"}

\* the methods that never touch c.mu
LockFree == {"Mine", "Seal", "AtBlock", "NewAccount"}

Idle(t) ==
    /\ pc' = [pc EXCEPT ![t] = "idle"]
    /\ op' = [op EXCEPT ![t] = <<"none", 0, <<>>>>]

\* a method's return: c.mu.Unlock() where the method locked
Leave(t) ==
    /\ mu' = IF mu = t THEN NoThread ELSE mu
    /\ Idle(t)

In(t, o) == pc[t] = "body" /\ op[t][1] = o

\* thread t calls method o: c.mu.Lock() where the method has it
Enter(t, o) ==
    /\ steps > 0
    /\ pc[t] = "idle"
    /\ IF o \in Locking THEN mu = NoThread /\ mu' = t ELSE mu' = mu
    /\ pc' = [pc EXCEPT ![t] = "body"]
    /\ op' = [op EXCEPT ![t] = <<o, 0, <<>>>>]
    /\ UNCHANGED <<c, block2snap, c2, heap, last, hist, filt, steps>>

ConcAddBalance(t) ==
    /\ In(t, "AddBalance")
    /\ CommitLive(AddBalance(Load(c), A, 1), Did("AddBalance", <<A, 1>>, <<>>, FALSE))
    /\ Leave(t)
    /\ UNCHANGED <<block2snap, hist, filt>>

ConcBalanceOf(t) ==
    /\ In(t, "BalanceOf")
    /\ Commit(c, c2, heap, Did("BalanceOf", <<A>>, <<balanceOf(c, A)>>, FALSE))
    /\ Leave(t)
    /\ UNCHANGED <<block2snap, hist, filt>>

ConcSend(t) ==
    /\ In(t, "Send")
    /\ FinishLive(EvmCall(Load(c), A, B, 1, <<>>, FALSE), "Send", <<A, B, 1>>)
    /\ Leave(t)
    /\ UNCHANGED <<block2snap, hist, filt>>

ConcMine(t) ==
    /\ In(t, "Mine")
    /\ FinishMine("c", Mine(Load(c), TxToB, <<>>, FALSE, 0), <<TxToB, <<>>, FALSE, 0>>)
    /\ Leave(t)
    /\ UNCHANGED <<block2snap, filt>>

ConcSeal(t) ==
    /\ In(t, "Seal")
    /\ FinishSeal("c", Seal(Load(c), block2snap), c.pending.number)
    /\ Leave(t)
    /\ UNCHANGED <<hist, filt>>

ConcAtBlock(t) ==
    /\ In(t, "AtBlock")
    /\ Keep(AtBlock(Load(c), block2snap, 0 - 2), 0 - 2)
    /\ Leave(t)
    /\ UNCHANGED <<block2snap, hist, filt>>

ConcNewAccount(t) ==
    /\ In(t, "NewAccount")
    /\ ~Exist(c, A)
    /\ CommitLive(NewAccount(Load(c), A, 1), Did("NewAccount", <<A, 1>>, <<A>>, FALSE))
    /\ Leave(t)
    /\ UNCHANGED <<block2snap, hist, filt>>

\* Execute up to c.mu.Unlock(): the handler of eth_getBlockByNumber for block
\* n runs and the mutex is released.  An error is answered at once; a result
\* is still to be marshalled.  op remembers the result and the number of the
\* block it points to, 0 when it is a copy.
Executed(r, t, n) ==
    /\ Commit(c, c2, heap, Did("execute", <<"eth_getBlockByNumber", n>>, r.b, FALSE))
    /\ IF r.b = <<>> THEN Idle(t)
       ELSE /\ pc' = [pc EXCEPT ![t] = "gross"]
            /\ op' = [op EXCEPT ![t] = <<"Execute", IF r.ref THEN n ELSE 0, r.b>>]

ConcExecute(t, n) ==
    /\ In(t, "Execute")
    /\ Executed(getBlock(Load(c), n2h(n)), t, n)
    /\ mu' = NoThread
    /\ UNCHANGED <<block2snap, hist, filt>>

\* the block a retained pointer leads to: the pending block while its number
\* is n, and after that the block as Seal stored it
Deref(s, n) ==
    IF s.pending.number = n THEN s.pending ELSE decode(TreeGet(s.blocks, n2h(n))[1])

\* Execute after c.mu.Unlock(): gross(ret, &res.Result) encodes what the result
\* points to as it is now.  The record keeps, next to it, the encoding of the
\* result as the handler returned it.
ConcGross(t) ==
    /\ pc[t] = "gross"
    /\ last' = Did("Execute", <<"eth_getBlockByNumber">>,
                   <<js(IF op[t][2] = 0 THEN op[t][3][1] ELSE Deref(c, op[t][2])),
                     js(op[t][3][1])>>, FALSE)
    /\ Idle(t)
    /\ UNCHANGED <<c, block2snap, c2, heap, hist, mu, filt, steps>>

(***************************************************************************)
(* Specifications.                                                         *)
(***************************************************************************)
BlockTags == {0 - 2, 0 - 1, 0, defaultBlock, defaultBlock + 1}

\* the state interface driven directly, as the EVM or a test drives it
NextState ==
    \/ DoAddBalance(A, 1)
    \/ DoSetNonce(A, 1)
    \/ DoSetCode(A, "code1")
    \/ \E w \in Words : DoSetState(A, "s1", w)
    \/ DoAddRefund(1)
    \/ DoSuicide(A)
    \/ \E l \in LogVals : DoAddLog(l)
    \/ DoSnapshot
    \/ \E v \in (0 - 1)..Len(c.snapshots) : DoRevertToSnapshot(v)

SpecState == Init /\ [][NextState]_vars

\* a live chain and a chain AtBlock returned, each mutated
NextView ==
    \/ DoAddBalance(A, 1)
    \/ \E l \in LogVals : DoAddLog(l)
    \/ DoSnapshot
    \/ \E v \in 0..(Len(c.snapshots) - 1) : DoRevertToSnapshot(v)
    \/ DoSeal
    \/ \E n \in BlockTags : DoAtBlock(n)
    \/ ViewAddBalance(A, 1)
    \/ \E l \in LogVals : ViewAddLog(l)
    \/ ViewSnapshot
    \/ \E v \in 0..(IF HasView THEN Len(c2[1].snapshots) - 1 ELSE 0 - 1) :
           ViewRevertToSnapshot(v)
    \/ ViewMine(TxToB, <<>>, FALSE, 0)
    \/ ViewSeal

SpecView == InitWith(MaxViewSteps) /\ [][NextView]_vars

\* transactions mined into blocks: a transfer to B, a call of B's code, a
\* contract creation
NextChain ==
    \/ DoNewAccount(A, 1)
    \/ DoSetCode(B, "code1")
    \/ \E tx \in Txs, p \in Progs, left \in 0..1 : DoMine(tx, p, FALSE, left)
    \/ \E tx \in Txs, p \in Progs : DoMine(tx, p, TRUE, 0)
    \/ DoSeal

SpecChain == InitWith(MaxChainSteps) /\ [][NextChain]_vars

\* balances over time: accounts funded, ether sent, blocks sealed, and the
\* JSON-RPC queries
NextBalance ==
    \/ \E a \in Addr : DoNewAccount(a, 1)
    \/ DoSend(A, B, 1, <<>>, FALSE)
    \/ DoMine(TxToB, <<>>, FALSE, 0)
    \/ DoSeal
    \/ \E a \in Addr, n \in BlockTags : EthGetBalance(a, n)
    \/ \E n \in {0 - 1, defaultBlock} : EthCall(A, B, n, <<>>, FALSE)
    \/ \E n \in {0 - 1, defaultBlock}, f \in BOOLEAN : EthEstimateGas(TxToB, n, <<>>, f)

SpecBalance == Init /\ [][NextBalance]_vars

\* two callers using one chain at once
NextConc ==
    \/ \E t \in Threads, o \in Locking \cup LockFree : Enter(t, o)
    \/ \E t \in Threads : ConcAddBalance(t)
    \/ \E t \in Threads : ConcBalanceOf(t)
    \/ \E t \in Threads : ConcSend(t)
    \/ \E t \in Threads : ConcMine(t)
    \/ \E t \in Threads : ConcSeal(t)
    \/ \E t \in Threads : ConcAtBlock(t)
    \/ \E t \in Threads : ConcNewAccount(t)
    \/ \E t \in Threads, n \in {defaultBlock, defaultBlock + 1} : ConcExecute(t, n)
    \/ \E t \in Threads : ConcGross(t)

SpecConc == InitWith(MaxConcSteps) /\ [][NextConc]_vars

(***************************************************************************)
(* Claims about the composite snapshots.                                   *)
(***************************************************************************)
Reverted == last.on = "c" /\ last.op = "RevertToSnapshot"

\* C1: after RevertToSnapshot(v) no descriptor above v is left on the stack,
\* and RevertToSnapshot(w) for a w above the target of an earlier revert, with
\* no Snapshot in between, is rejected as "no such snapshot".
C1_StaleSnapshotsDiscarded ==
    /\ (Reverted /\ ~last.panic) => Len(c.snapshots) <= last.arg[1] + 1
    /\ (Reverted /\ last.ret[1]) => last.panic

\* C2: RevertToSnapshot(s), for a snapshot s that no earlier revert reached or
\* went below, does not fail and leaves the observable state (accounts, code,
\* storage, logs, refund, transaction and receipt records) equal to the one
\* Snapshot() saw when it returned s.
C2_RevertRestoresObservableState ==
    (Reverted /\ last.arg[1] \in 0..(Len(c.snapshots) - 1) /\ ~last.ret[2])
        => (~last.panic /\ Obs(Load(c)) = c.hobs[last.arg[1] + 1])

\* a revert to snapshot 0, taken after an account was written, that undid
\* writes made after it, with a second snapshot taken above it
C2_Witness ==
    /\ Reverted /\ ~last.ret[2] /\ last.ret[3] /\ ~last.panic
    /\ last.arg[1] = 0
    /\ c.hdead = {0, 1}
    /\ c.hobs[1].accounts # EmptyMap

(***************************************************************************)
(* Claims about the chains AtBlock returns.                                *)
(***************************************************************************)
\* what a caller can observe of the chain AtBlock returned
ViewObs == [obs |-> Obs(Load(c2[1])), pending |-> c2[1].pending]

\* what a caller can observe of the live chain
LiveObs ==
    [obs |-> Obs(Load(c)), snapshots |-> c.snapshots, pending |-> c.pending,
     blocks |-> c.blocks.m, block2snap |-> block2snap,
     at |-> [n \in BlockTags |-> AtBlock(Load(c), block2snap, n).kind]]

\* C3: an operation on the live chain c (other than the AtBlock that replaces
\* c2) leaves the observable state of c2 = c.AtBlock(n) unchanged: accounts,
\* code, storage, transactions, receipts, logs and pending block.
C3_ViewUnchangedByLive ==
    [][(HasView /\ last'.on = "c" /\ last'.op # "AtBlock") => ViewObs' = ViewObs]_vars

\* C4: an operation on c2 = c.AtBlock(n) leaves the live chain c unchanged:
\* its trees, logs, snapshot stack, pending block, block2snap and the outcome
\* of c.AtBlock(m) for every m.
C4_LiveUnchangedByView ==
    [][(last'.on = "c2") => LiveObs' = LiveObs]_vars

(***************************************************************************)
(* Claims about the mutex.                                                 *)
(***************************************************************************)
\* C5: a caller inside a Chain method holds the mutex, so no two callers are
\* inside Chain methods at once.
C5_MethodsHoldMutex ==
    /\ \A t \in Threads : pc[t] = "body" => mu = t
    /\ Cardinality({t \in Threads : pc[t] = "body"}) <= 1

\* C6: Execute holds the mutex while it marshals the handler's result, and
\* the result it encodes is the one the handler returned.
C6_MarshalUnderMutex ==
    /\ \A t \in Threads : pc[t] = "gross" => mu = t
    /\ (last.op = "Execute") => last.ret[1] = last.ret[2]

(***************************************************************************)
(* Claims about Mine and Seal.                                             *)
(***************************************************************************)
MineOf(l) == l.on = "c" /\ l.op = "Mine"

\* C7: when the EVM run of Mine(tx) fails, Mine returns the error and the
\* pending block (transaction list, gas-used), the log sequence and the
\* Transactions and Receipts trees are as before the call.
C7_FailedMineChangesNothing ==
    [][(/\ MineOf(last')
        /\ ~last'.panic
        /\ MineEvm(Load(c), last'.arg[1], last'.arg[2], last'.arg[3]).err)
       => (/\ last'.ret[1]
           /\ c'.pending = c.pending
           /\ Logs(Load(c))' = Logs(Load(c))
           /\ c'.transactions.m = c.transactions.m
           /\ c'.receipts.m = c.receipts.m)]_vars

\* a Mine that failed after its code had appended a log, in a block that
\* already holds a transaction
C7_Witness ==
    /\ MineOf(last) /\ last.ret[1] /\ ~last.panic /\ last.arg[3]
    /\ Len(heap[1]) > c.logs.len
    /\ Len(c.pending.transactions) >= 1

\* C8: a successful Mine(tx) gives tx the index len(pending.Transactions),
\* appends js(hash) to the pending block's list, adds gas - left to its
\* gas-used and stores the transaction and its receipt under the hash with
\* the pending number; and every record stored earlier is retrieved unchanged
\* after any later operation (Seal among them).
C8_MineBookkeeping ==
    [][/\ (MineOf(last') /\ ~last'.ret[1]) =>
            LET b == c.pending
                h == last'.ret[2][1]
                t == transaction(c', h)
                r == receipt(c', h)
            IN  /\ c'.pending.transactions = Append(b.transactions, js(h))
                /\ c'.pending.gasUsed = b.gasUsed + (last'.arg[1].gas - last'.arg[4])
                /\ c'.pending.number = b.number
                /\ t # <<>> /\ r # <<>>
                /\ t[1].txIndex = Len(b.transactions)
                /\ t[1].blockNumber = b.number
                /\ t[1].hash = h
                /\ r[1].hash = h
                /\ r[1].index = Len(b.transactions)
       /\ \A h \in DOMAIN hist.mined :
            /\ transaction(c', h) = hist.mined[h].tx
            /\ receipt(c', h) = hist.mined[h].rx]_vars

\* the second transaction of a block, retrieved after two Seals
C8_Witness ==
    /\ last.on = "c" /\ last.op = "Seal"
    /\ \E h \in DOMAIN hist.mined :
         /\ hist.mined[h].tx # <<>>
         /\ hist.mined[h].tx[1].txIndex = 1
         /\ c.pending.number >= hist.mined[h].tx[1].blockNumber + 2
         /\ transaction(c, h) = hist.mined[h].tx

BalanceIn(obs, a) == IF a \in DOMAIN obs.accounts THEN obs.accounts[a].bal ELSE 0

\* C10: eth_getBalance(a, n) for a sealed block n answers the balance a had
\* when n was sealed; for "latest" (-2), once a block is sealed, the balance
\* at the most recent Seal; for "pending" (-1) the current balance.
C10_HistoricalBalance ==
    (last.op = "eth_getBalance") =>
        LET a == last.arg[1]
            n == last.arg[2]
        IN  /\ ~last.panic
            /\ (n \in DOMAIN hist.sealed)
                   => last.ret = <<"ok", BalanceIn(hist.sealed[n], a)>>
            /\ (n = 0 - 2 /\ (c.pending.number - 1) \in DOMAIN hist.sealed)
                   => last.ret = <<"ok", BalanceIn(hist.sealed[c.pending.number - 1], a)>>
            /\ (n = 0 - 1) => last.ret = <<"ok", balanceOf(c, a)>>

\* the balance at the first Seal, asked after a transfer and a second Seal
C10_Witness ==
    /\ last.op = "eth_getBalance"
    /\ last.arg = <<A, defaultBlock>>
    /\ last.ret = <<"ok", WeiPerEther>>
    /\ balanceOf(c, A) < WeiPerEther
    /\ c.pending.number = defaultBlock + 2

(***************************************************************************)
(* Claims about the block numbers AtBlock accepts.                         *)
(***************************************************************************)
\* the block numbers asked for: the special ones, "earliest", and the numbers
\* around the pending one
AtTags == {0 - 2, 0 - 1, 0} \cup ((defaultBlock - 1)..(defaultBlock + 2))

\* blocks sealed and chains asked for by number
NextAt ==
    \/ \E a \in Addr : DoNewAccount(a, 1)
    \/ DoMine(TxToB, <<>>, FALSE, 0)
    \/ DoSeal
    \/ \E n \in AtTags : DoAtBlock(n)

SpecAt == Init /\ [][NextAt]_vars

\* C11: AtBlock(n) returns nil when n is not -1 or -2, not the pending number
\* and not the number of a block sealed on this chain.
C11_UnknownBlockIsAbsent ==
    (/\ last.on = "c" /\ last.op = "AtBlock"
     /\ last.arg[1] \notin {0 - 1, 0 - 2, c.pending.number}
     /\ last.arg[1] \notin DOMAIN hist.sealed)
        => last.ret[1] = "nil"

MaxFilterSteps == 6  \* operations in one run of the filter registry

matches(flt, l) ==
    /\ flt.from <= l.blockNumber /\ l.blockNumber <= flt.to
    /\ (flt.addr = <<>> \/ flt.addr[1] = l.address)

\* what a filter operation leaves and returns
OutFilter(f, ret, err, panic) == [f |-> f, ret |-> ret, err |-> err, panic |-> panic]

\* newFilter without the test of the block range
newFilterNoRangeCheck(f, from, to, addr) ==
    OutFilter([filtcount |-> f.filtcount + 1,
               filters |-> MapPut(f.filters, f.filtcount + 1,
                                  [from |-> from, to |-> to, addr |-> addr, lastlog |-> 0])],
              f.filtcount + 1, FALSE, FALSE)

\* Chain.newFilter
newFilter(f, from, to, addr) ==
    IF from > to THEN OutFilter(f, 0, TRUE, FALSE)
    ELSE OutFilter([filtcount |-> f.filtcount + 1,
                    filters |-> MapPut(f.filters, f.filtcount + 1,
                                       [from |-> from, to |-> to, addr |-> addr, lastlog |-> 0])],
                   f.filtcount + 1, FALSE, FALSE)

\* filterLogs scanning from the filter's cursor
filterLogsFromCursor(f, logs, fd) ==
    IF fd \notin DOMAIN f.filters THEN OutFilter(f, "bad filter id", TRUE, FALSE)
    ELSE LET Test(l) == matches(f.filters[fd], l)
         IN  OutFilter(f, lconv(SelectSeq(SubSeq(logs, f.filters[fd].lastlog + 1, Len(logs)), Test)),
                       FALSE, FALSE)

\* Chain.filterLogs
filterLogs(f, logs, fd) ==
    IF fd \notin DOMAIN f.filters THEN OutFilter(f, "bad filter id", TRUE, FALSE)
    ELSE LET Test(l) == matches(f.filters[fd], l)
         IN  OutFilter(f, lconv(SelectSeq(logs, Test)), FALSE, FALSE)

\* filterChanges leaving the cursor where it was
filterChangesKeepCursor(f, logs, fd) ==
    IF fd \notin DOMAIN f.filters THEN OutFilter(f, "bad filter id", TRUE, FALSE)
    ELSE IF f.filters[fd].lastlog > Len(logs) THEN OutFilter(f, <<>>, TRUE, TRUE)
    ELSE LET Test(l) == matches(f.filters[fd], l)
         IN  OutFilter(f, lconv(SelectSeq(SubSeq(logs, f.filters[fd].lastlog + 1, Len(logs)), Test)),
                       FALSE, FALSE)

\* Chain.filterChanges; the slice logs[lastlog:] panics when the cursor is
\* beyond the end of the logs
filterChanges(f, logs, fd) ==
    IF fd \notin DOMAIN f.filters THEN OutFilter(f, "bad filter id", TRUE, FALSE)
    ELSE IF f.filters[fd].lastlog > Len(logs) THEN OutFilter(f, <<>>, TRUE, TRUE)
    ELSE LET Test(l) == matches(f.filters[fd], l)
         IN  OutFilter([f EXCEPT !.filters[fd].lastlog = Len(logs)],
                       lconv(SelectSeq(SubSeq(logs, f.filters[fd].lastlog + 1, Len(logs)), Test)),
                       FALSE, FALSE)

\* deleteFilter answering true whatever the id
deleteFilterAlwaysTrue(f, fd) ==
    OutFilter([f EXCEPT !.filters = MapDel(@, fd)], TRUE, FALSE, FALSE)

\* Chain.deleteFilter
deleteFilter(f, fd) ==
    OutFilter([f EXCEPT !.filters = MapDel(@, fd)], fd \in DOMAIN f.filters, FALSE, FALSE)

\* a filter request answered: hist.delivered keeps, for every id ever
\* returned, the logs eth_getFilterChanges has returned for it so far
Filtered(r, name, arg) ==
    /\ Commit(c, c2, heap, Did(name, arg, <<r.err, r.ret>>, r.panic))
    /\ filt' = r.f
    /\ hist' = IF r.err THEN hist
               ELSE IF name = "eth_newFilter"
               THEN [hist EXCEPT !.delivered = MapPut(@, r.ret, <<>>)]
               ELSE IF name = "eth_getFilterChanges"
               THEN [hist EXCEPT !.delivered[arg[1]] = @ \o r.ret]
               ELSE hist

EthNewFilter(q) ==
    /\ Filtered(newFilter(filt, q.from, q.to, q.addr), "eth_newFilter", <<q>>)
    /\ UNCHANGED <<block2snap, mu, pc, op>>

EthGetFilterChanges(fd) ==
    /\ Filtered(filterChanges(filt, Logs(Load(c)), fd), "eth_getFilterChanges", <<fd>>)
    /\ UNCHANGED <<block2snap, mu, pc, op>>

EthGetFilterLogs(fd) ==
    /\ Filtered(filterLogs(filt, Logs(Load(c)), fd), "eth_getFilterLogs", <<fd>>)
    /\ UNCHANGED <<block2snap, mu, pc, op>>

EthUninstallFilter(fd) ==
    /\ Filtered(deleteFilter(filt, fd), "eth_uninstallFilter", <<fd>>)
    /\ UNCHANGED <<block2snap, mu, pc, op>>

\* "latest" is -2 (blocknum.UnmarshalJSON)
FilterReqs ==
    { [from |-> 0, to |-> 0 - 2, addr |-> <<A>>],
      [from |-> 0, to |-> defaultBlock, addr |-> <<A>>],
      [from |-> defaultBlock, to |-> defaultBlock + 1, addr |-> <<>>],
      [from |-> defaultBlock + 1, to |-> 0, addr |-> <<>>] }

\* filters installed, asked and removed while logs are appended and blocks
\* sealed
NextFilter ==
    \/ \E q \in FilterReqs : EthNewFilter(q)
    \/ \E fd \in 1..2 : EthGetFilterChanges(fd)
    \/ \E fd \in 1..2 : EthGetFilterLogs(fd)
    \/ \E fd \in 1..2 : EthUninstallFilter(fd)
    \/ \E a \in Addr : DoAddLog([address |-> a, blockNumber |-> c.pending.number])
    \/ DoSeal

SpecFilter == InitWith(MaxFilterSteps) /\ [][NextFilter]_vars

\* the logs of the live chain that match the installed filter fd, converted
Matching(f, fd, s) ==
    LET Test(l) == matches(f.filters[fd], l)
    IN  lconv(SelectSeq(Logs(Load(s)), Test))

FilterOk(l, name) == l.op = name /\ ~l.ret[1] /\ ~l.panic

\* C13: eth_newFilter with fromBlock 0, toBlock "latest" and address A
\* succeeds and returns an id, and eth_getFilterChanges for that filter
\* returns the logs from A not yet delivered.
C13_FilterDelivery ==
    /\ (last.op = "eth_newFilter" /\ last.arg[1] = [from |-> 0, to |-> 0 - 2, addr |-> <<A>>])
           => (~last.ret[1] /\ last.ret[2] \in DOMAIN filt.filters)
    /\ (/\ FilterOk(last, "eth_getFilterChanges")
        /\ filt.filters[last.arg[1]].to = 0 - 2)
           => hist.delivered[last.arg[1]] = Matching(filt, last.arg[1], c)

\* C14: eth_getFilterChanges on an installed filter returns; together its
\* answers are exactly the matching logs appended so far, in log order; and a
\* call right after another one for the same filter returns the empty list.
C14_ChangesDeliverOnce ==
    [][(last'.op = "eth_getFilterChanges" /\ last'.arg[1] \in DOMAIN filt.filters) =>
          /\ FilterOk(last', "eth_getFilterChanges")
          /\ hist'.delivered[last'.arg[1]] = Matching(filt', last'.arg[1], c')
          /\ (FilterOk(last, "eth_getFilterChanges") /\ last.arg = last'.arg)
                 => last'.ret[2] = <<>>]_vars

\* a second delivery: logs were delivered, more were appended, and
\* the call returned just the new matching one
C14_Witness ==
    /\ FilterOk(last, "eth_getFilterChanges")
    /\ Len(last.ret[2]) = 1
    /\ Len(hist.delivered[last.arg[1]]) = 2
    /\ Len(Logs(Load(c))) = 2

\* C15: eth_newFilter with from > to fails and leaves the registry as it
\* was; otherwise it returns an id above every id returned before, under
\* which the filter is installed.
C15_FilterIdsGrow ==
    [][(last'.op = "eth_newFilter") =>
          IF last'.arg[1].from > last'.arg[1].to
          THEN last'.ret[1] /\ filt' = filt
          ELSE /\ ~last'.ret[1]
               /\ \A i \in DOMAIN hist.delivered : last'.ret[2] > i
               /\ last'.ret[2] \in DOMAIN filt'.filters]_vars

\* the id 2, returned after filter 1 was uninstalled and a request with
\* from > to was rejected
C15_Witness ==
    /\ FilterOk(last, "eth_newFilter") /\ last.ret[2] = 2
    /\ DOMAIN filt.filters = {2}
    /\ steps <= MaxFilterSteps - 4

\* C16: eth_getFilterLogs on an installed filter returns every matching log
\* of the whole log sequence, in log order, and leaves every cursor and the
\* State as they were.
C16_FilterLogsFullScan ==
    [][(last'.op = "eth_getFilterLogs" /\ last'.arg[1] \in DOMAIN filt.filters) =>
          /\ FilterOk(last', "eth_getFilterLogs")
          /\ last'.ret[2] = Matching(filt, last'.arg[1], c)
          /\ filt' = filt
          /\ c' = c]_vars

\* all logs asked for after eth_getFilterChanges moved the cursor past them
C16_Witness ==
    /\ FilterOk(last, "eth_getFilterLogs")
    /\ Len(last.ret[2]) >= 1
    /\ filt.filters[last.arg[1]].lastlog = Len(Logs(Load(c)))

\* C17: eth_uninstallFilter(id) returns true exactly when id is installed
\* and removes that filter only; eth_getFilterChanges and eth_getFilterLogs
\* for an id that is not installed fail with "bad filter id" and leave the
\* registry as it was.
C17_Uninstall ==
    [][/\ (last'.op = "eth_uninstallFilter") =>
            /\ last'.ret[2] = (last'.arg[1] \in DOMAIN filt.filters)
            /\ filt'.filters = MapDel(filt.filters, last'.arg[1])
       /\ (/\ last'.op \in {"eth_getFilterChanges", "eth_getFilterLogs"}
           /\ last'.arg[1] \notin DOMAIN filt.filters)
              => (last'.ret = <<TRUE, "bad filter id">> /\ filt' = filt)]_vars

\* eth_getFilterChanges for a filter that was uninstalled, while another
\* filter with a moved cursor is installed
C17_Witness ==
    /\ last.op = "eth_getFilterChanges" /\ last.ret[1]
    /\ last.arg[1] \in DOMAIN hist.delivered
    /\ last.arg[1] \notin DOMAIN filt.filters
    /\ \E fd \in DOMAIN filt.filters : filt.filters[fd].lastlog > 0

(***************************************************************************)
(* eth_sendTransaction and the answers of Execute.                         *)
(***************************************************************************)
OutSend(s, b2s, err, panic, h) == [s |-> s, b2s |-> b2s, err |-> err, panic |-> panic, h |-> h]

\* send sealing a block whatever Mine returned
sendSealAlways(m, b2s) ==
    IF m.panic THEN OutSend(m.s, b2s, TRUE, TRUE, <<>>)
    ELSE OutSend(Seal(m.s, b2s).s, Seal(m.s, b2s).b2s, m.err, FALSE, m.h)

\* Chain.send once Mine has returned m: its error is returned, else the
\* block is sealed
send(m, b2s) ==
    IF m.err THEN OutSend(m.s, b2s, TRUE, m.panic, <<>>)
    ELSE OutSend(Seal(m.s, b2s).s, Seal(m.s, b2s).b2s, FALSE, FALSE, m.h)

\* Execute after the handler: an error becomes the error code -32601, a
\* result is marshalled; a panic of the handler is not recovered, so
\* Execute does not return (<<>>)
Response(err, panic) ==
    IF panic THEN <<>>
    ELSE <<[code |-> IF err THEN 0 - 32601 ELSE 0]>>

Sent(r, arg) ==
    /\ CommitLive(r.s, Did("eth_sendTransaction", arg, <<r.err, r.h>>, r.panic))
    /\ block2snap' = r.b2s
    /\ hist' = IF r.err THEN hist
               ELSE [hist EXCEPT !.sealed = MapPut(@, c.pending.number, Obs(r.s)),
                                 !.mined = MapPut(@, r.h[1], [tx |-> transaction(r.s, r.h[1]),
                                                              rx |-> receipt(r.s, r.h[1])])]

EthSendTransaction(tx, prog, fails) ==
    /\ Sent(send(Mine(Load(c), tx, prog, fails, 0), block2snap), <<tx, prog, fails>>)
    /\ Frozen

MaxRpcSteps == 4     \* requests in one run of the transport

\* accounts funded, code installed, transactions sent and gas estimated
NextRpc ==
    \/ DoNewAccount(A, 1)
    \/ DoSetCode(B, "code1")
    \/ \E tx \in Txs, p \in {q \in Progs : Len(q) = 2}, f \in BOOLEAN :
           EthSendTransaction(tx, p, f)
    \/ \E tx \in Txs, n \in {0 - 1, defaultBlock}, p \in {q \in Progs : Len(q) = 2},
          f \in BOOLEAN :
           EthEstimateGas(tx, n, p, f)

SpecRpc == InitWith(MaxRpcSteps) /\ [][NextRpc]_vars

\* C18: an eth_sendTransaction that succeeds seals one block: the pending
\* number grows by 1, and the block stored under the old number holds the
\* transaction's hash; one that fails with an error seals nothing: pending
\* number, stored blocks and block2snap stay as they were.
C18_SendSealsOneBlock ==
    [][(last'.op = "eth_sendTransaction" /\ ~last'.panic) =>
          LET N == c.pending.number
          IN  IF last'.ret[1]
              THEN /\ c'.pending.number = N
                   /\ c'.blocks = c.blocks
                   /\ block2snap' = block2snap
              ELSE /\ c'.pending.number = N + 1
                   /\ DOMAIN block2snap' = DOMAIN block2snap \cup {N}
                   /\ DOMAIN c'.blocks.m = DOMAIN c.blocks.m \cup {n2h(N)}
                   /\ decode(TreeGet(c'.blocks, n2h(N))[1]).transactions
                          = Append(c.pending.transactions, js(last'.ret[2][1]))
                   /\ transaction(c', last'.ret[2][1]) # <<>>]_vars

\* a second transaction sent, sealed as block defaultBlock + 1
C18_Witness ==
    /\ last.op = "eth_sendTransaction" /\ ~last.ret[1] /\ ~last.panic
    /\ c.pending.number = defaultBlock + 2
    /\ Len(decode(TreeGet(c.blocks, n2h(defaultBlock + 1))[1]).transactions) = 1

\* a transaction that failed after a block was sealed
C18_WitnessFailed ==
    /\ last.op = "eth_sendTransaction" /\ last.ret[1] /\ ~last.panic
    /\ c.pending.number = defaultBlock + 1

\* C19: eth_estimateGas that returns, with a result or with an error, leaves
\* the chain as it was: accounts (balances, nonces), code, storage, logs,
\* refund, transaction and receipt records and the pending block.
C19_EstimateLeavesState ==
    [][(last'.op = "eth_estimateGas" /\ ~last'.panic) =>
          /\ Obs(Load(c))' = Obs(Load(c))
          /\ c'.pending = c.pending]_vars

\* C20: every eth_sendTransaction and eth_estimateGas request is answered:
\* with a result, or with an error response of code -32601.
C20_ErrorsSurface ==
    (last.op \in {"eth_sendTransaction", "eth_estimateGas"}) =>
        /\ Response(last.ret[1], last.panic) # <<>>
        /\ last.ret[1] => Response(last.ret[1], last.panic)[1].code = 0 - 32601

(***************************************************************************)
(* Execute and the dispatch of execute, for the requests that can fail.    *)
(* A request is [id, version, method, params]; a call object carries, next *)
(* to from and to, what the called code does (prog, fails).                *)
(***************************************************************************)
\* marshal(params, to...): the error when the counts differ, else nil
marshal(from, n) == IF Len(from) # n THEN <<"expected params">> ELSE <<>>

\* what a handler leaves and returns
OutExec(s, err, msg, ret, panic) ==
    [s |-> s, err |-> err, msg |-> msg, ret |-> ret, panic |-> panic]

\* the handler's (value, error) pair as execute returns it
Found(s, v, msg) == IF v = <<>> THEN OutExec(s, TRUE, msg, <<>>, FALSE)
                    ELSE OutExec(s, FALSE, "", v, FALSE)

\* eth_call on the chain AtBlock(n) answered with
called(s, at, a) ==
    CASE at.kind = "self" ->
           OutExec(EvmStaticCall(s, a.from, a.to, a.prog, a.fails).s,
                   EvmStaticCall(s, a.from, a.to, a.prog, a.fails).err, "evm error", <<"data">>,
                   EvmStaticCall(s, a.from, a.to, a.prog, a.fails).panic)
      [] at.kind = "view" ->
           OutExec(s, EvmStaticCall(at.s[1], a.from, a.to, a.prog, a.fails).err, "evm error",
                   <<"data">>, EvmStaticCall(at.s[1], a.from, a.to, a.prog, a.fails).panic)
      [] at.kind = "nil" -> OutExec(s, TRUE, "unknown block number", <<>>, FALSE)
      [] OTHER -> OutExec(s, TRUE, "", <<>>, TRUE)

\* Chain.execute for the methods below; f is the filter registry
execute(s, f, b2s, method, params) ==
    CASE method = "eth_getTransactionByHash" ->
           IF marshal(params, 1) # <<>> THEN OutExec(s, TRUE, marshal(params, 1)[1], <<>>, FALSE)
           ELSE Found(s, transaction(s, params[1]), "no such transaction")
      [] method = "eth_getTransactionReceipt" ->
           IF marshal(params, 1) # <<>> THEN OutExec(s, TRUE, marshal(params, 1)[1], <<>>, FALSE)
           ELSE Found(s, receipt(s, params[1]), "receipt not found")
      [] method = "eth_getBlockByNumber" ->
           IF marshal(params, 2) # <<>> THEN OutExec(s, TRUE, marshal(params, 2)[1], <<>>, FALSE)
           ELSE Found(s, getBlock(s, n2h(params[1])).b, "unknown block hash")
      [] method = "eth_getBalance" ->
           IF marshal(params, 2) # <<>> THEN OutExec(s, TRUE, marshal(params, 2)[1], <<>>, FALSE)
           ELSE IF AtBlock(s, b2s, params[2]).kind = "nil"
           THEN OutExec(s, TRUE, "unknown block number", <<>>, FALSE)
           ELSE OutExec(s, FALSE, "", <<"balance">>, AtBlock(s, b2s, params[2]).kind = "panic")
      [] method = "eth_getFilterLogs" ->
           IF marshal(params, 1) # <<>> THEN OutExec(s, TRUE, marshal(params, 1)[1], <<>>, FALSE)
           ELSE OutExec(s, filterLogs(f, Logs(s), params[1]).err, "bad filter id",
                        <<"logs">>, FALSE)
      [] method = "eth_call" ->
           IF marshal(params, 2) # <<>> THEN OutExec(s, TRUE, marshal(params, 2)[1], <<>>, FALSE)
           ELSE called(s, AtBlock(s, b2s, params[2]), params[1])
      [] OTHER -> OutExec(s, TRUE, "unsupported method", <<>>, FALSE)

\* Execute answering every failure with the code 0
ExecuteCodeZero(req, h) ==
    IF h.panic THEN <<>>
    ELSE <<[id |-> req.id, version |-> req.version,
            result |-> IF h.err THEN <<>> ELSE <<js(h.ret[1])>>,
            code |-> 0,
            message |-> IF h.err THEN h.msg ELSE "",
            failed |-> FALSE]>>

\* Chain.Execute around the handler's outcome h: the response, and in failed
\* the transport error it returns; <<>> when the handler panicked
Execute(req, h) ==
    IF h.panic THEN <<>>
    ELSE <<[id |-> req.id, version |-> req.version,
            result |-> IF h.err THEN <<>> ELSE <<js(h.ret[1])>>,
            code |-> IF h.err THEN 0 - 32601 ELSE 0,
            message |-> IF h.err THEN h.msg ELSE "",
            failed |-> FALSE]>>

\* the record keeps the handler's error and message next to the response
Requested(h, req) ==
    CommitLive(h.s, Did("Request", <<req>>, <<h.err, h.msg, Execute(req, h)>>, h.panic))

ExecuteRequest(req) ==
    /\ Requested(execute(Load(c), filt, block2snap, req.method, req.params), req)
    /\ Rest

Reqs ==
    { [id |-> 1, version |-> "2.0", method |-> "eth_chainId", params |-> <<>>],
      [id |-> 2, version |-> "2.0", method |-> "eth_getBalance", params |-> <<A>>],
      [id |-> 3, version |-> "2.0", method |-> "eth_getBalance", params |-> <<A, 5>>],
      [id |-> 4, version |-> "2.0", method |-> "eth_getBalance", params |-> <<A, 0 - 1>>],
      [id |-> 5, version |-> "1.0", method |-> "eth_getTransactionByHash",
       params |-> <<TxHash(defaultBlock, 0)>>],
      [id |-> 6, version |-> "2.0", method |-> "eth_getTransactionReceipt",
       params |-> <<TxHash(defaultBlock + 1, 0)>>],
      [id |-> 7, version |-> "2.0", method |-> "eth_getBlockByNumber",
       params |-> <<defaultBlock + 2, FALSE>>],
      [id |-> 8, version |-> "2.0", method |-> "eth_getFilterLogs", params |-> <<2>>],
      [id |-> 9, version |-> "2.0", method |-> "eth_call",
       params |-> <<[from |-> A, to |-> B, prog |-> <<>>, fails |-> TRUE], 0 - 1>>] }

\* requests sent to a chain that is used meanwhile
NextExec ==
    \/ \E req \in Reqs : ExecuteRequest(req)
    \/ DoNewAccount(A, 1)
    \/ DoSetCode(B, "code1")
    \/ EthSendTransaction(TxToB, <<>>, FALSE)
    \/ EthNewFilter([from |-> 0, to |-> defaultBlock, addr |-> <<>>])

SpecExec == InitWith(MaxRpcSteps) /\ [][NextExec]_vars

\* C21: when the handler of a request fails, Execute answers with the
\* request's id and version, the error code -32601, the handler's message and
\* no result, and returns no error of its own; an unknown method or a wrong
\* number of params leaves the chain as it was.
C21_FailuresAnswered ==
    [][(last'.op = "Request" /\ last'.ret[1] /\ ~last'.panic) =>
          /\ last'.ret[3] = <<[id |-> last'.arg[1].id, version |-> last'.arg[1].version,
                              result |-> <<>>, code |-> 0 - 32601,
                              message |-> last'.ret[2], failed |-> FALSE]>>
          /\ (last'.ret[2] \in {"unsupported method", "expected params"})
                 => (c' = c /\ block2snap' = block2snap /\ filt' = filt)]_vars

\* an eth_call answered with the EVM's error, on a chain that holds a sealed
\* block
C21_Witness ==
    /\ last.op = "Request" /\ last.ret[1] /\ ~last.panic
    /\ last.ret[2] = "evm error"
    /\ last.ret[3][1].code = 0 - 32601
    /\ c.pending.number = defaultBlock + 1

\* C22: the hash Mine gives the transaction at index i of the pending block
\* numbered N is one Keccak-256 of the 8 little-endian bytes of N | (i << 48).
C22_TxHashSingleKeccak ==
    (last.op = "Mine" /\ ~last.panic /\ ~last.ret[1]) =>
        last.ret[2][1] = n2hw(transaction(Load(c), last.ret[2][1])[1].txIndex,
                              transaction(Load(c), last.ret[2][1])[1].blockNumber)

(***************************************************************************)
(* Ether sent between accounts, funded or not, to themselves and to an     *)
(* account that holds code.                                                *)
(***************************************************************************)
SendValues == 0..3

NextSend ==
    \/ \E a \in Addr : DoNewAccount(a, 1)
    \/ DoSetCode(B, "code1")
    \/ \E from \in Addr, to \in Addr, v \in SendValues, f \in BOOLEAN :
          DoSend(from, to, v, <<>>, f)

SpecSend == Init /\ [][NextSend]_vars

\* what Send(from, to, v) has to leave: no error, v moved from from to to
Moved(from, to, v) ==
    /\ ~last'.panic /\ ~last'.ret[1]
    /\ balanceOf(c', from) = balanceOf(c, from) - v
    /\ balanceOf(c', to) = balanceOf(c, to) + v

\* Send between two distinct accounts with a value that the sender holds
SendCase ==
    /\ last'.op = "Send"
    /\ last'.arg[1] # last'.arg[2]
    /\ last'.arg[3] <= balanceOf(c, last'.arg[1])

\* C23 as stated: for distinct accounts A and B and 0 <= v <= BalanceOf(A),
\* Send(A, B, v) succeeds, A's balance falls by v and B's rises by v (a B that
\* did not exist counts as 0), and nothing is debited for gas.
C23_SendMovesValue_Original ==
    [][SendCase => Moved(last'.arg[1], last'.arg[2], last'.arg[3])]_vars

\* C23, amended: the same for a destination B that holds no code.
C23_SendMovesValue ==
    [][(SendCase /\ ~HasCode(Load(c), last'.arg[2]))
          => Moved(last'.arg[1], last'.arg[2], last'.arg[3])]_vars

\* A sent 1 of its 2 to B, which did not exist
C23_Witness ==
    /\ last.op = "Send" /\ last.arg = <<A, B, 1>> /\ ~last.ret[1]
    /\ balanceOf(c, A) = 1 /\ balanceOf(c, B) = 1
    /\ ~HasCode(Load(c), B)

\* all the ether there is, in a State whose accounts are at A and B
TotalEther(s) == balanceOf(s, A) + balanceOf(s, B)

\* C27: a value transfer conserves ether: for every from and to, from = to
\* included, and every v that from holds, Send leaves the sum of all balances
\* unchanged.
C27_TransferConserves ==
    [][(last'.op = "Send" /\ last'.arg[3] <= balanceOf(c, last'.arg[1]))
          => TotalEther(c') = TotalEther(c)]_vars

(***************************************************************************)
(* The methods that run the EVM outside of a block: Create, Call and       *)
(* StaticCall send no value.                                               *)
(***************************************************************************)
DoCreate(sender, prog, fails) ==
    /\ FinishLive(EvmCreate(Load(c), sender, 0, prog, fails), "Create", <<sender>>)
    /\ Rest

DoCall(sender, dst, prog, fails) ==
    /\ FinishLive(EvmCall(Load(c), sender, dst, 0, prog, fails), "Call", <<sender, dst>>)
    /\ Rest

DoStaticCall(sender, dst, prog, fails) ==
    /\ FinishLive(EvmStaticCall(Load(c), sender, dst, prog, fails), "StaticCall",
                  <<sender, dst>>)
    /\ Rest

\* the EVM run directly, by the RPC queries and by mined transactions
NextDirect ==
    \/ DoNewAccount(A, 1)
    \/ DoSetCode(B, "code1")
    \/ DoMine(TxToB, <<>>, FALSE, 0)
    \/ DoSeal
    \/ \E p \in Progs, f \in BOOLEAN : DoCreate(A, p, f)
    \/ \E p \in Progs, f \in BOOLEAN : DoCall(A, B, p, f)
    \/ \E p \in Progs, f \in BOOLEAN : DoStaticCall(A, B, p, f)
    \/ \E f \in BOOLEAN : DoSend(A, B, 1, <<>>, f)
    \/ \E n \in {0 - 1, defaultBlock} : EthCall(A, B, n, <<>>, FALSE)
    \/ \E n \in {0 - 1, defaultBlock}, f \in BOOLEAN : EthEstimateGas(TxToB, n, <<>>, f)

SpecDirect == Init /\ [][NextDirect]_vars

Direct == {"Create", "Call", "StaticCall", "Send"}

\* C24: Create, Call, StaticCall and Send, whether they succeed or fail,
\* leave the pending block, the Transactions tree, the Receipts tree and
\* block2snap unchanged.
C24_OnlyMineKeepsBooks ==
    [][last'.op \in Direct =>
          /\ c'.pending = c.pending
          /\ c'.transactions.m = c.transactions.m
          /\ c'.receipts.m = c.receipts.m
          /\ block2snap' = block2snap]_vars

\* a call whose code failed and was reverted, on a chain that holds a mined
\* transaction and a sealed block
C24_Witness ==
    /\ last.op = "Call" /\ last.ret[1] /\ ~last.panic
    /\ DOMAIN c.transactions.m # {}
    /\ DOMAIN block2snap # {}

\* C25: the snapshot stack is discarded between transactions: after Mine,
\* Create, Call, Send, eth_call or eth_estimateGas returns, the stack holds no
\* descriptor pushed during that execution.
C25_StackDiscarded ==
    [][last'.op \in {"Mine", "Create", "Call", "Send", "eth_call", "eth_estimateGas"}
          => Len(c'.snapshots) <= Len(c.snapshots)]_vars

(***************************************************************************)
(* Requests served over HTTP by concurrent callers.  A handler that panics *)
(* unwinds through Execute to the HTTP server, which recovers and goes on  *)
(* serving; the statements of Execute after the handler are not run.       *)
(***************************************************************************)
TxCreate == [from |-> A, to |-> <<>>, gas |-> TxGas, value |-> 0]

\* Execute around the outcome r of the eth_sendTransaction handler:
\* c.mu.Unlock() is the statement after c.execute
ExecutedSend(r, t) ==
    /\ Sent(r, <<TxCreate, <<>>, FALSE>>)
    /\ mu' = IF r.panic THEN mu ELSE NoThread
    /\ Idle(t)

\* Execute of eth_sendTransaction for a contract creation by A
ConcExecuteSend(t) ==
    /\ In(t, "Execute")
    /\ ExecutedSend(send(Mine(Load(c), TxCreate, <<>>, FALSE, 0), block2snap), t)
    /\ UNCHANGED filt

NextLock ==
    \/ \E t \in Threads, o \in {"Execute", "NewAccount", "BalanceOf", "Send"} : Enter(t, o)
    \/ \E t \in Threads : ConcExecuteSend(t)
    \/ \E t \in Threads : ConcNewAccount(t)
    \/ \E t \in Threads : ConcBalanceOf(t)
    \/ \E t \in Threads : ConcSend(t)

SpecLock == InitWith(MaxConcSteps) /\ [][NextLock]_vars

\* C26: the mutex is released at the end of every Execute call and every
\* locking method, also when the operation panicked inside the locked region
\* and the HTTP server caught it: no caller that has returned holds the mutex.
C26_MutexReleased == \A t \in Threads : pc[t] = "idle" => mu # t

(***************************************************************************)
(* Block queries with full transactions.  An entry of a block's            *)
(* transaction list is JSON: of a hash as Mine appends it, of a            *)
(* transaction once getBlock has populated the list.                       *)
(***************************************************************************)
\* json.Unmarshal(entry, &txh) succeeds on the JSON of a hash
IsHashJson(e) == "keccak" \in DOMAIN e.json

OutBlock(s, err, msg, b) == [s |-> s, err |-> err, msg |-> msg, b |-> b]

\* the loop of getBlock over b.Transactions from entry i on; ntx is the list
\* built so far
RECURSIVE populate(_, _, _, _)
populate(s, txs, i, ntx) ==
    IF i > Len(txs) THEN [err |-> FALSE, msg |-> "", ntx |-> ntx]
    ELSE IF ~IsHashJson(txs[i]) THEN [err |-> TRUE, msg |-> "malformed tx", ntx |-> <<>>]
    ELSE IF TreeGet(s.transactions, txs[i].json) = <<>>
    THEN [err |-> TRUE, msg |-> "no such tx", ntx |-> <<>>]
    ELSE populate(s, txs, i + 1,
                  Append(ntx, js(decode(TreeGet(s.transactions, txs[i].json)[1]))))

\* b.Transactions = ntx: b is the pending block itself when g.ref
populated(s, g, p) ==
    IF p.err THEN OutBlock(s, TRUE, p.msg, <<>>)
    ELSE OutBlock(IF g.ref THEN [s EXCEPT !.pending.transactions = p.ntx] ELSE s,
                  FALSE, "", <<[g.b[1] EXCEPT !.transactions = p.ntx]>>)

\* Chain.getBlock(h, fulltx), g being the block found
getBlockFound(s, g, fulltx) ==
    IF g.b = <<>> THEN OutBlock(s, TRUE, "unknown block hash", <<>>)
    ELSE IF ~fulltx THEN OutBlock(s, FALSE, "", g.b)
    ELSE populated(s, g, populate(s, g.b[1].transactions, 1, <<>>))

getBlockFull(s, h, fulltx) == getBlockFound(s, getBlock(s, h), fulltx)

GotBlock(r, n, full) ==
    CommitLive(r.s, Did("eth_getBlockByNumber", <<n, full>>, <<r.err, r.msg, r.b>>, FALSE))

\* eth_getBlockByNumber: the block's hash is n2h of its number
EthGetBlockByNumber(n, full) ==
    /\ GotBlock(getBlockFull(Load(c), n2h(n), full), n, full)
    /\ Rest

NextBlock ==
    \/ DoNewAccount(A, 1)
    \/ DoMine(TxToB, <<>>, FALSE, 0)
    \/ DoSeal
    \/ \E n \in defaultBlock..(defaultBlock + 2), full \in BOOLEAN : EthGetBlockByNumber(n, full)

SpecBlock == Init /\ [][NextBlock]_vars

\* C28: eth_getBlockByNumber is read-only for every argument combination,
\* full transactions on the pending block included: the pending block and its
\* list of transaction hashes, and all trees, are left unchanged.
C28_BlockQueryReadOnly ==
    [][last'.op = "eth_getBlockByNumber" =>
          /\ c'.pending = c.pending
          /\ Obs(Load(c))' = Obs(Load(c))
          /\ c'.blocks.m = c.blocks.m]_vars

(***************************************************************************)
(* The handles of sealed blocks on a chain whose snapshot stack the EVM    *)
(* grows and reverts on: transactions, direct calls and requests, with     *)
(* code that takes inner snapshots, writes storage and logs, and fails.    *)
(***************************************************************************)
NextSealed ==
    \/ DoNewAccount(A, 1)
    \/ DoSetCode(B, "code1")
    \/ \E p \in Progs, f \in BOOLEAN : DoMine(TxToB, p, f, 0)
    \/ DoSeal
    \/ \E p \in Progs, f \in BOOLEAN : DoCall(A, B, p, f)
    \/ \E f \in BOOLEAN : DoCreate(A, <<>>, f)
    \/ \E f \in BOOLEAN : DoSend(A, B, 1, <<>>, f)
    \/ \E p \in Progs, f \in BOOLEAN : EthSendTransaction(TxToB, p, f)
    \/ \E n \in {0 - 1, defaultBlock}, f \in BOOLEAN : EthEstimateGas(TxToB, n, <<>>, f)
    \/ \E n \in {0 - 1, defaultBlock} : EthCall(A, B, n, <<>>, FALSE)

SpecSealed == Init /\ [][NextSealed]_vars

\* an observation without the refund counter, which atSnap takes from the
\* current State
Settled(o) == [o EXCEPT !.refund = 0]

\* C29: every handle in block2snap is an index into the live chain's snapshot
\* stack and designates the descriptor taken when its block was sealed:
\* AtBlock(n) for a sealed n is in range and rebuilds the state of that moment.
C29_HandlesStayValid ==
    \A n \in DOMAIN block2snap :
        /\ block2snap[n] \in 0..(Len(c.snapshots) - 1)
        /\ n \in DOMAIN hist.sealed
        /\ c.hobs[block2snap[n] + 1] = hist.sealed[n]
        /\ AtBlock(Load(c), block2snap, n).kind = "view"
        /\ Settled(Obs(AtBlock(Load(c), block2snap, n).s[1])) = Settled(hist.sealed[n])

\* two sealed blocks with different states, the second handle above
\* descriptors the EVM pushed, and a failed call after the last Seal
C29_Witness ==
    /\ DOMAIN block2snap = {defaultBlock, defaultBlock + 1}
    /\ block2snap[defaultBlock + 1] > block2snap[defaultBlock] + 1
    /\ hist.sealed[defaultBlock] # hist.sealed[defaultBlock + 1]
    /\ Len(c.snapshots) > block2snap[defaultBlock + 1] + 1
    /\ last.op = "Call" /\ last.ret[1]

(***************************************************************************)
(* Filters on a chain whose State is also driven through its state         *)
(* interface, c.State.StateDB(): snapshots taken and reverted to.          *)
(***************************************************************************)
NextCursor ==
    \/ EthNewFilter([from |-> 0, to |-> defaultBlock, addr |-> <<>>])
    \/ \E fd \in 1..2 : EthGetFilterChanges(fd)
    \/ \E a \in Addr : DoAddLog([address |-> a, blockNumber |-> c.pending.number])
    \/ DoSnapshot
    \/ \E v \in 0..(Len(c.snapshots) - 1) : DoRevertToSnapshot(v)

SpecCursor == InitWith(MaxFilterSteps) /\ [][NextCursor]_vars

\* C30: in every reachable state, also after RevertToSnapshot has truncated
\* the logs, the cursor of each installed filter is at most the length of the
\* log sequence.
C30_CursorWithinLogs ==
    \A fd \in DOMAIN filt.filters : filt.filters[fd].lastlog <= c.logs.len

(***************************************************************************)
(* The books of the chain under requests of every kind: the transaction    *)
(* lists of the pending and the stored blocks against the Transactions and *)
(* Receipts trees.                                                         *)
(***************************************************************************)
NextBooks ==
    \/ DoNewAccount(A, 1)
    \/ DoMine(TxToB, <<>>, FALSE, 0)
    \/ DoSeal
    \/ \E f \in BOOLEAN : EthSendTransaction(TxToB, <<>>, f)
    \/ \E n \in {0 - 1, defaultBlock} : EthCall(A, B, n, <<>>, FALSE)
    \/ \E n \in {0 - 1, defaultBlock}, f \in BOOLEAN : EthEstimateGas(TxToB, n, <<>>, f)
    \/ \E n \in defaultBlock..(defaultBlock + 1), full \in BOOLEAN : EthGetBlockByNumber(n, full)
    \/ EthNewFilter([from |-> 0, to |-> defaultBlock, addr |-> <<>>])
    \/ EthGetFilterChanges(1)

SpecBooks == Init /\ [][NextBooks]_vars

\* the pending block and the blocks stored by Seal
BlocksOf(s) == {s.pending} \cup {decode(s.blocks.m[h]) : h \in DOMAIN s.blocks.m}

\* the entry of a transaction list is a hash with a transaction and a receipt
Booked(s, e) ==
    /\ IsHashJson(e)
    /\ TreeGet(s.transactions, e.json) # <<>>
    /\ TreeGet(s.receipts, e.json) # <<>>

\* C31: after any sequence of requests and Mine/Seal calls, every entry of
\* the transaction list of the pending block and of every stored block
\* decodes as a transaction hash, and that hash has a transaction record and a
\* receipt record in the live chain's trees.
C31_ListedHashesBooked ==
    \A b \in BlocksOf(c) : \A i \in 1..Len(b.transactions) : Booked(c, b.transactions[i])

(***************************************************************************)
(* The 64-bit word Mine hashes: uint64(N) | (uint64(i) << 48).  A word is  *)
(* kept as its high 16 bits and its low 48 bits; a block number N is given *)
(* the same way, [nhi, nlo] standing for nhi * 2^48 + nlo.                 *)
(***************************************************************************)
\* a | b on unsigned integers
RECURSIVE Or(_, _)
Or(a, b) ==
    IF a = 0 THEN b
    ELSE IF b = 0 THEN a
    ELSE (IF a % 2 = 1 \/ b % 2 = 1 THEN 1 ELSE 0) + 2 * Or(a \div 2, b \div 2)

\* the word without the transaction index
TxWordNoIndex(p) == [le64hi |-> p.nhi, le64lo |-> p.nlo]

\* i << 48 keeps the low 16 bits of i, as the high 16 bits of the word
TxWord(p) == [le64hi |-> Or(p.nhi, p.i % 65536), le64lo |-> p.nlo]

\* block numbers and indices below and beyond 2^48 and 2^16
HashPairs == [nhi : 0..1, nlo : {defaultBlock, defaultBlock + 1}, i : {0, 1, 2, 65536, 65537}]

InBounds(p) == p.nhi = 0 /\ p.i < 65536

\* the words of two (block number, index) pairs
HashInputs(p, q) ==
    /\ Commit(c, c2, heap, Did("TxWord", <<p, q>>, <<TxWord(p), TxWord(q)>>, FALSE))
    /\ Rest

NextHash ==
    \/ \E p \in HashPairs, q \in HashPairs : HashInputs(p, q)
    \/ DoNewAccount(A, 1)
    \/ \E f \in BOOLEAN : DoMine(TxToB, <<>>, f, 0)
    \/ DoSeal

SpecHash == InitWith(MaxChainSteps) /\ [][NextHash]_vars

\* C32: for block numbers below 2^48 and indices below 2^16, different
\* (block number, index) pairs give different 64-bit words; and a Mine hashes
\* the word of the pending block's number and the index, which is the key of
\* no transaction or receipt record yet.
C32_HashInputsUnique ==
    [][/\ (/\ last'.op = "TxWord"
           /\ InBounds(last'.arg[1]) /\ InBounds(last'.arg[2])
           /\ last'.arg[1] # last'.arg[2])
          => last'.ret[1] # last'.ret[2]
       /\ (last'.op = "Mine" /\ ~last'.panic /\ ~last'.ret[1])
          => /\ last'.ret[2][1] =
                  HashBytes(HashBytes(TxWord([nhi |-> 0, nlo |-> c.pending.number,
                                              i |-> Len(c.pending.transactions)])))
             /\ last'.ret[2][1] \notin DOMAIN c.transactions.m
             /\ last'.ret[2][1] \notin DOMAIN c.receipts.m]_vars

\* two transactions of one block, indices 1 and 2
C32_Witness ==
    /\ last.op = "TxWord"
    /\ last.arg[1] = [nhi |-> 0, nlo |-> defaultBlock, i |-> 1]
    /\ last.arg[2] = [nhi |-> 0, nlo |-> defaultBlock, i |-> 2]
    /\ last.ret[1] # last.ret[2]

\* a second transaction mined into a block after a sealed block with one
C32_WitnessMined ==
    /\ last.op = "Mine" /\ ~last.ret[1]
    /\ Len(c.pending.transactions) = 2
    /\ c.pending.number = defaultBlock + 1

\* beyond the bounds: different pairs with the same word
C32_WitnessCollision ==
    /\ last.op = "TxWord"
    /\ last.arg[1] # last.arg[2]
    /\ last.ret[1] = last.ret[2]

(***************************************************************************)
(* Balance arithmetic through the state interface.                         *)
(***************************************************************************)
\* gethState.SubBalance: the difference goes through SetBalance
SubBalance(s, a, v) ==
    SetAccount(s, a, SetBalance(GetAccount(s, a).acct, GetAccount(s, a).acct.bal - v))

\* the record keeps the balance a had before
DoSubBalance(a, v) ==
    /\ CommitLive(SubBalance(Load(c), a, v), Did("SubBalance", <<a, v>>, <<balanceOf(c, a)>>, FALSE))
    /\ Rest

Amounts == 0..3

NextArith ==
    \/ DoNewAccount(A, 1)
    \/ \E a \in Addr, v \in Amounts : DoAddBalance(a, v)
    \/ \E a \in Addr, v \in Amounts : DoSubBalance(a, v)

SpecArith == Init /\ [][NextArith]_vars

\* AddBalance(a, v) right after SubBalance(a, v)
SubThenAdd == last.op = "SubBalance" /\ last'.op = "AddBalance" /\ last'.arg = last.arg

\* SubBalance(a, v) right after AddBalance(a, v)
AddThenSub == last.op = "AddBalance" /\ last'.op = "SubBalance" /\ last'.arg = last.arg

\* C33: for every account a, existing or not, and every v >= 0,
\* SubBalance(a, v) followed by AddBalance(a, v) restores a's balance, and so
\* does AddBalance(a, v) followed by SubBalance(a, v); SubBalance with v above
\* the balance never leaves a positive balance the account did not have.
C33_BalanceRoundTrips ==
    [][/\ SubThenAdd => balanceOf(c', last.arg[1]) = last.ret[1]
       /\ AddThenSub => balanceOf(c', last.arg[1]) = balanceOf(c, last.arg[1]) - last.arg[2]
       /\ (last'.op = "SubBalance" /\ last'.arg[2] > balanceOf(c, last'.arg[1]))
          => (balanceOf(c', last'.arg[1]) = 0
              \/ balanceOf(c', last'.arg[1]) = balanceOf(c, last'.arg[1]))]_vars

====
